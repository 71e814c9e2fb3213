----------------------------- MODULE ClientConn -----------------------------
(***************************************************************************)
(* One connection of an MQTT client: bridge/client.go.  Serve runs two     *)
(* goroutines, readLoop and writeLoop, and waits for both.  The callbacks  *)
(* of the client's NATS subscriptions ("producers") and the read loop put  *)
(* packets in a bounded queue, the write loop takes them in bulk.  Three   *)
(* goroutines may call SetDisconnected: the read loop when it ends, the    *)
(* write loop when a write fails, and the server when it drains.           *)
(*                                                                         *)
(* The MQTT client, the TCP connection and NATS are the environment.       *)
(***************************************************************************)
EXTENDS Naturals, Sequences, SequencesExt

CONSTANTS
    Producers,    \* the goroutines that run the callbacks of subscriptions
    Cap,          \* capacity of writeQueue, and of a bulk: 1024 in the code
    KeepAlive,    \* has the client asked for a keep-alive period?
    HasWill,      \* has the client a will?
    WriteFails,   \* may writing to the connection fail?
    MaxReads,     \* bound: packets the client sends
    MaxMsgs       \* bound: messages the subscriptions deliver

ASSUME FlagsAssumption ==
    KeepAlive \in BOOLEAN /\ HasWill \in BOOLEAN /\ WriteFails \in BOOLEAN
ASSUME BoundsAssumption == Cap \in Nat \ {0} /\ MaxReads \in Nat /\ MaxMsgs \in Nat

(* Who calls SetDisconnected.                                              *)
Callers == {"reader", "writer", "drain"}

VARIABLES
    c,        \* the client's fields: state, maxWait, the read deadline of its
              \* connection, was a connect packet recorded, its will, is the
              \* client managed by the server, has it NATS subscriptions
    queue,    \* writeQueue
    reader,   \* position of readLoop, its local st and maxWait, what it queues
    writer,   \* position of writeLoop, and its bulk
    disc,     \* position of each caller in SetDisconnected
    producer, \* position of each producer in queueForWrite
    drained,  \* has the server drained this client?
    served,   \* has Serve returned?
    panicked, \* has a goroutine used a will that is gone?
    reads,    \* packets read so far
    msgs,     \* messages delivered so far
    history   \* ghost: packets queued up to the one that ends the loop, packets
              \* written, has a write failed, how often the will was published

loops == <<reader, writer, disc, producer>>
flags == <<drained, served, panicked>>
counters == <<reads, msgs>>
vars == <<c, queue, loops, flags, counters, history>>

Stop == "stop"    \* pkg.DisconnectSingleton in the write queue
Kinds == {"connack", "refused", "suback", "pong", "response", Stop}
-----------------------------------------------------------------------------

(* NewClient, and Serve up to the start of both loops.                     *)
Init ==
    /\ c = [st |-> "infant", maxWait |-> "none", deadline |-> "none",
            connected |-> FALSE, will |-> FALSE, managed |-> FALSE, subscribed |-> FALSE]
    /\ queue = <<>>
    /\ reader = [at |-> "head", st |-> "infant", wait |-> "none", send |-> "none"]
    /\ writer = [at |-> "take", bulk |-> <<>>]
    /\ disc = [w \in Callers |-> "none"]
    /\ producer = [p \in Producers |-> "idle"]
    /\ drained = FALSE /\ served = FALSE /\ panicked = FALSE
    /\ reads = 0 /\ msgs = 0
    /\ history = [queued |-> <<>>, written |-> <<>>, failed |-> FALSE,
                  wills |-> 0]

(* c.writeQueue <- p: blocks while the queue is full.                      *)
Send(p) ==
    /\ Len(queue) < Cap
    /\ queue' = Append(queue, p)
    /\ history' = IF Contains(history.queued, Stop) THEN history
                  ELSE [history EXCEPT !.queued = Append(@, p)]

-----------------------------------------------------------------------------
(* SetDisconnected, called by w.                                           *)

(* The test of the state: only the first caller goes on.                   *)
EveryCaller == TRUE
FirstCaller == c.st # "disconnected"
DiscEnter(w) ==
    IF FirstCaller
    THEN /\ c' = [c EXCEPT !.st = "disconnected", !.maxWait = "soon"]
         /\ disc' = [disc EXCEPT ![w] = "test"]
    ELSE UNCHANGED <<c, disc>>

DiscGoes(w, from, to) ==
    /\ disc[w] = from
    /\ disc' = [disc EXCEPT ![w] = to]
    /\ UNCHANGED <<reader, writer, producer, drained, served, counters>>

(* cp.HasWill()                                                            *)
DiscTestWill(w) ==
    /\ DiscGoes(w, "test", IF c.connected /\ c.will THEN "will" ELSE "stop")
    /\ UNCHANGED <<c, queue, panicked, history>>

(* cp.Will() and PublishWill: without a will, a nil pointer is used.       *)
DiscPublishWill(w) ==
    /\ DiscGoes(w, "will", "stop")
    /\ panicked' = ~c.will
    /\ history' = IF c.will THEN [history EXCEPT !.wills = @ + 1] ELSE history
    /\ UNCHANGED <<c, queue>>

(* "This packet will not be sent but it will terminate the write loop"     *)
DiscStop(w) ==
    /\ DiscGoes(w, "stop", "release")
    /\ Send(Stop)
    /\ UNCHANGED <<c, panicked>>

(* "release reader block"                                                  *)
DiscRelease(w) ==
    /\ DiscGoes(w, "release", "none")
    /\ c' = [c EXCEPT !.deadline = "soon"]
    /\ UNCHANGED <<queue, panicked, history>>

SetDisconnected(w) ==
    DiscTestWill(w) \/ DiscPublishWill(w) \/ DiscStop(w) \/ DiscRelease(w)

-----------------------------------------------------------------------------
(* readLoop                                                                *)

ReaderGoes(from, to) ==
    /\ reader.at = from
    /\ reader' = [reader EXCEPT !.at = to]
    /\ UNCHANGED <<writer, producer, flags, msgs>>

(* The head of the loop: state and wait are read together, under the lock. *)
ReadHead ==
    /\ reader.at = "head"
    /\ reader' = [reader EXCEPT !.st = c.st, !.wait = c.maxWait,
                                !.at = IF c.st = "disconnected" THEN "leave" ELSE "arm"]
    /\ UNCHANGED <<c, queue, writer, disc, producer, flags, counters, history>>

(* SetReadDeadline, when there is a wait.                                  *)
ReadArm ==
    /\ ReaderGoes("arm", "read")
    /\ c' = IF reader.wait = "none" THEN c ELSE [c EXCEPT !.deadline = reader.wait]
    /\ UNCHANGED <<queue, disc, reads, history>>

(* The client sends a packet that readLoop, which found the state to be s, *)
(* answers with p, or with nothing.                                        *)
Receives(s, to, p) ==
    /\ reader.at = "read"
    /\ reader.st = s
    /\ reads < MaxReads
    /\ reads' = reads + 1
    /\ reader' = [reader EXCEPT !.at = to, !.send = p]
    /\ UNCHANGED <<queue, writer, disc, producer, flags, msgs, history>>

(* A CONNECT where none is allowed, anything else where a CONNECT must     *)
(* come, or a packet that cannot be parsed: the loop ends with an error.   *)
ReadUnexpected ==
    /\ \E s \in {"infant", "connected"} : Receives(s, "leave", "none")
    /\ UNCHANGED c

(* CONNECT: handleConnect records the packet and queues the CONNACK, then  *)
(* the server manages the client.  A client that is refused, by NATS or    *)
(* because its packet is not acceptable and so not recorded, is connected  *)
(* all the same until its CONNACK is queued.                               *)
ReadConnect(answer, recorded) ==
    /\ Receives("infant", "check", answer)
    /\ answer = "connack" => recorded
    /\ c' = [c EXCEPT !.st = "connected", !.connected = recorded,
                      !.will = HasWill /\ recorded,
                      !.maxWait = IF KeepAlive /\ answer = "connack" THEN "keepalive"
                                                                   ELSE @]

(* PINGREQ *)
ReadPing ==
    /\ Receives("connected", "check", "pong")
    /\ UNCHANGED c

(* SUBSCRIBE, and PUBLISH with QoS 1, after which callbacks may run.       *)
ReadSubscribe ==
    /\ Receives("connected", "check", "suback")
    /\ c' = [c EXCEPT !.subscribed = TRUE]

ReadPublish ==
    /\ Receives("connected", "head", "none")
    /\ c' = [c EXCEPT !.subscribed = TRUE]

(* DISCONNECT: "Normal disconnect", "Discard will".                        *)
ReadDisconnect ==
    /\ Receives("connected", "leave", "none")
    /\ c' = [c EXCEPT !.will = FALSE]

(* The client closes the connection, or the read deadline passes.          *)
ReadEOF ==
    /\ ReaderGoes("read", "leave")
    /\ UNCHANGED <<c, queue, disc, reads, history>>

ReadTimeout == c.deadline # "none" /\ ReadEOF

AfterSend == IF reader.send = "refused" THEN "leave" ELSE "head"

(* queueForWrite: the test of the state ...                                *)
WhenConnected == c.st = "connected"
ReadCheck ==
    /\ ReaderGoes("check", IF WhenConnected THEN "send" ELSE AfterSend)
    /\ UNCHANGED <<c, queue, disc, reads, history>>

(* ... and the blocking send; a client that was accepted is then managed.  *)
ReadSend ==
    /\ ReaderGoes("send", AfterSend)
    /\ Send(reader.send)
    /\ c' = [c EXCEPT !.managed = @ \/ reader.send = "connack"]
    /\ UNCHANGED <<disc, reads>>

(* The loop has ended: SetDisconnected(err).                               *)
ReadLeave ==
    /\ ReaderGoes("leave", "leaving")
    /\ DiscEnter("reader")
    /\ UNCHANGED <<queue, reads, history>>

ReadDone ==
    /\ disc["reader"] = "none"
    /\ ReaderGoes("leaving", "done")
    /\ UNCHANGED <<c, queue, disc, reads, history>>

-----------------------------------------------------------------------------
(* writeLoop                                                               *)

WriterGoes(from, to, bulk) ==
    /\ writer.at = from
    /\ writer' = [at |-> to, bulk |-> bulk]
    /\ UNCHANGED <<reader, producer, flags, counters>>

(* The next packet, then as many more as there are, then the write.        *)
WriteTake(from) ==
    /\ queue # <<>>
    /\ Len(writer.bulk) < Cap
    /\ WriterGoes(from, "fill", Append(writer.bulk, Head(queue)))
    /\ queue' = Tail(queue)
    /\ UNCHANGED <<c, disc, history>>

WriteFilled ==
    /\ queue = <<>> \/ Len(writer.bulk) = Cap
    /\ WriterGoes("fill", "write", writer.bulk)
    /\ UNCHANGED <<c, queue, disc, history>>

(* The packets of the bulk that are written: those ahead of the stop.      *)
Ending == Contains(writer.bulk, Stop)
NothingAtStop(b) == IF Contains(b, Stop) THEN <<>> ELSE b
ToWrite(b) == IF Contains(b, Stop) THEN SubSeq(b, 1, SelectInSeq(b, LAMBDA p : p = Stop) - 1)
                                   ELSE b

NeverEnds == "take"
AfterWrite == IF Ending THEN "done" ELSE "take"
Write ==
    /\ WriterGoes("write", AfterWrite, <<>>)
    /\ history' = [history EXCEPT !.written = @ \o ToWrite(writer.bulk)]
    /\ UNCHANGED <<c, queue, disc>>

(* A write error: SetDisconnected, unless the loop is about to end anyway. *)
WriteError ==
    /\ WriteFails
    /\ ToWrite(writer.bulk) # <<>>
    /\ WriterGoes("write", IF Ending THEN "done" ELSE "leaving", <<>>)
    /\ history' = [history EXCEPT !.failed = TRUE]
    /\ IF Ending THEN UNCHANGED <<c, disc>> ELSE DiscEnter("writer")
    /\ UNCHANGED queue

WriteDone ==
    /\ disc["writer"] = "none"
    /\ WriterGoes("leaving", "done", <<>>)
    /\ UNCHANGED <<c, queue, disc, history>>

-----------------------------------------------------------------------------
(* The callbacks, the server's drain, and Serve.                           *)

(* natsResponse ... queueForWrite: the test of the state, the send.        *)
ProducerCheck(p) ==
    /\ c.subscribed /\ ~served
    /\ producer[p] = "idle"
    /\ WhenConnected
    /\ msgs < MaxMsgs
    /\ msgs' = msgs + 1
    /\ producer' = [producer EXCEPT ![p] = "send"]
    /\ UNCHANGED <<c, queue, reader, writer, disc, flags, reads, history>>

ProducerSend(p) ==
    /\ producer[p] = "send"
    /\ Send("response")
    /\ producer' = [producer EXCEPT ![p] = "idle"]
    /\ UNCHANGED <<c, reader, writer, disc, flags, counters>>

(* drainAndShutdown: SetDisconnected(nil) on a client that is managed.     *)
Drain ==
    /\ ~drained
    /\ c.managed
    /\ DiscEnter("drain")
    /\ drained' = TRUE
    /\ UNCHANGED <<queue, reader, writer, producer, served, panicked, counters, history>>

(* workers.Wait returns, the connections are closed.                       *)
ServeReturns ==
    /\ ~served
    /\ reader.at = "done"
    /\ writer.at = "done"
    /\ served' = TRUE
    /\ UNCHANGED <<c, queue, loops, drained, panicked, counters, history>>

-----------------------------------------------------------------------------

ReadLoop == ReadHead \/ ReadArm \/ ReadCheck \/ ReadSend \/ ReadLeave \/ ReadDone

ReadPacket ==
    \/ ReadUnexpected
    \/ \E answer \in {"connack", "refused"}, recorded \in BOOLEAN :
          ReadConnect(answer, recorded)
    \/ ReadPing
    \/ ReadSubscribe
    \/ ReadPublish
    \/ ReadDisconnect
    \/ ReadEOF

WriteLoop ==
    \/ \E from \in {"take", "fill"} : WriteTake(from)
    \/ WriteFilled
    \/ Write
    \/ WriteDone

(* A panic in any goroutine ends the process.                              *)
Next ==
    /\ ~panicked
    /\ \/ ReadLoop
       \/ ReadPacket
       \/ ReadTimeout
       \/ WriteLoop
       \/ WriteError
       \/ \E w \in Callers : SetDisconnected(w)
       \/ \E p \in Producers : ProducerCheck(p) \/ ProducerSend(p)
       \/ Drain
       \/ ServeReturns

Spec == Init /\ [][Next]_vars

(* Goroutines run, a channel serves every sender in the end, a deadline    *)
(* passes.  Nothing obliges the client to send anything.                   *)
FairSpec ==
    /\ Spec
    /\ SF_vars(~panicked /\ ReadLoop)
    /\ WF_vars(~panicked /\ ReadTimeout)
    /\ WF_vars(~panicked /\ (WriteLoop \/ WriteError))
    /\ \A w \in Callers : SF_vars(~panicked /\ SetDisconnected(w))
    /\ \A p \in Producers : SF_vars(~panicked /\ ProducerSend(p))
    /\ WF_vars(~panicked /\ ServeReturns)

-----------------------------------------------------------------------------

Waits == {"none", "keepalive", "soon"}
States == {"infant", "connected", "disconnected"}

(* Every variable has its type: the queue and the bulk respect their       *)
(* capacity, and the packet that ends the write loop is never written.     *)
TypeOK ==
    /\ c \in [st : States, maxWait : Waits, deadline : Waits, connected : BOOLEAN,
              will : BOOLEAN, managed : BOOLEAN, subscribed : BOOLEAN]
    /\ queue \in Seq(Kinds) /\ Len(queue) <= Cap
    /\ reader \in [at : {"head", "arm", "read", "check", "send", "leave", "leaving",
                         "done"},
                   st : States, wait : Waits, send : Kinds \cup {"none"}]
    /\ writer \in [at : {"take", "fill", "write", "leaving", "done"}, bulk : Seq(Kinds)]
    /\ Len(writer.bulk) <= Cap
    /\ disc \in [Callers -> {"none", "test", "will", "stop", "release"}]
    /\ producer \in [Producers -> {"idle", "send"}]
    /\ drained \in BOOLEAN /\ served \in BOOLEAN /\ panicked \in BOOLEAN
    /\ reads \in 0..MaxReads /\ msgs \in 0..MaxMsgs
    /\ history \in [queued : Seq(Kinds), written : Seq(Kinds \ {Stop}),
                    failed : BOOLEAN, wills : Nat]

(* "it will terminate the write loop once everything else has been         *)
(* flushed" (client.go:165-166): when the write loop has ended without a   *)
(* write error, exactly the packets queued ahead of the stop have been     *)
(* written, in order; at any time a prefix of them.                        *)
FlushedInOrder ==
    /\ IsPrefix(history.written, history.queued)
    /\ writer.at = "done" /\ ~history.failed
          => Append(history.written, Stop) = history.queued

(* A will is published exactly once when a connection ends, unless the     *)
(* client disconnected normally, however many goroutines end it.  A drain  *)
(* may still be about to publish it when Serve has returned.               *)
WillPublishedOnce ==
    /\ history.wills <= 1
    /\ served /\ c.will /\ (\A w \in Callers : disc[w] = "none")
          => history.wills = 1

(* "SetDisconnected will end the read and write loop and eventually cause  *)
(* Serve() to end" (client.go:40).                                         *)
ServeEnds == c.st = "disconnected" ~> served

(* The write loop has failed and the queue is full: the caller that is to  *)
(* queue the stop, or the read loop with an answer, waits for ever.        *)
Jammed ==
    /\ history.failed /\ writer.at \in {"leaving", "done"}
    /\ Len(queue) = Cap
    /\ reader.at = "send" \/ \E w \in Callers : disc[w] = "stop"

(* Nothing but that and a panic keeps Serve from ending, not even a client *)
(* that is silent or a queue that is full when the stop is to be queued.   *)
ServeEndsUnlessJammed == c.st = "disconnected" ~> served \/ panicked \/ Jammed
=============================================================================
