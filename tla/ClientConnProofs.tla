-------------------------- MODULE ClientConnProofs --------------------------
(***************************************************************************)
(* Proofs about ClientConn for any number of producers, any capacity of    *)
(* the write queue and any number of packets and messages: types, how      *)
(* often a will is published, and what the write loop has written.         *)
(***************************************************************************)
EXTENDS ClientConn, SequenceTheorems, WellFoundedInduction, TLAPS

(* A set of naturals that is not empty has a least element.                *)
Less == {x \in Nat \X Nat : x[1] < x[2]}
LEMMA HasFirst ==
  ASSUME NEW S, S \subseteq Nat, S # {}
  PROVE  \E x \in S : \A y \in S : x <= y
<1>1. IsWellFoundedOn(Less, Nat)
  BY NatLessThanWellFounded DEF OpToRel, Less
<1>2. PICK x \in S : \A y \in S : <<y, x>> \notin Less
  BY <1>1, WFMin
<1>3. \A y \in S : ~(y < x)
  BY <1>2 DEF Less
<1>4. QED
  BY <1>3

(* Where the packet that ends the write loop is in a bulk.                 *)
StopAt(b) == SelectInSeq(b, LAMBDA p : p = Stop)

LEMMA FirstStop ==
  ASSUME NEW b \in Seq(Kinds), Contains(b, Stop)
  PROVE  /\ StopAt(b) \in 1..Len(b) /\ b[StopAt(b)] = Stop
         /\ \A i \in 1..(StopAt(b) - 1) : b[i] # Stop
<1> DEFINE I == {i \in 1..Len(b) : b[i] = Stop}
<1>1. I # {} /\ I \subseteq Nat
  BY DEF Contains
<1>2. StopAt(b) = CHOOSE x \in I : \A y \in I : x <= y
  BY <1>1 DEF StopAt, SelectInSeq, Min
<1>3. StopAt(b) \in I /\ \A y \in I : StopAt(b) <= y
  <2> HIDE DEF I
  <2>1. QED
    BY <1>1, <1>2, HasFirst
<1>4. QED
  BY <1>3

LEMMA WhatIsWritten ==
  ASSUME NEW b \in Seq(Kinds)
  PROVE  /\ ToWrite(b) \in Seq(Kinds \ {Stop})
         /\ Len(ToWrite(b)) = IF Contains(b, Stop) THEN StopAt(b) - 1 ELSE Len(b)
         /\ \A i \in 1..Len(ToWrite(b)) : ToWrite(b)[i] = b[i]
<1>0. Len(b) \in Nat /\ \A i \in 1..Len(b) : b[i] \in Kinds
  BY LenProperties, ElementOfSeq
<1>1. CASE Contains(b, Stop)
  <2> DEFINE n == StopAt(b) - 1
  <2>1. n \in Nat /\ n \in Int /\ \A i \in 1..n : b[i] \in Kinds \ {Stop}
    BY <1>0, <1>1, FirstStop
  <2>2. ToWrite(b) = SubSeq(b, 1, n)
    BY <1>1 DEF ToWrite, StopAt
  <2> HIDE DEF n
  <2>3. /\ SubSeq(b, 1, n) \in Seq(Kinds \ {Stop})
        /\ Len(SubSeq(b, 1, n)) = IF 1 <= n THEN n - 1 + 1 ELSE 0
        /\ \A i \in 1..(n - 1 + 1) : SubSeq(b, 1, n)[i] = b[1 + i - 1]
    BY <2>1, SubSeqProperties
  <2>4. Len(ToWrite(b)) = n /\ \A i \in 1..n : ToWrite(b)[i] = b[i]
    BY <2>1, <2>2, <2>3
  <2>5. QED
    BY <1>1, <2>2, <2>3, <2>4 DEF n
<1>2. CASE ~Contains(b, Stop)
  <2>1. ToWrite(b) = b /\ \A i \in 1..Len(b) : b[i] \in Kinds \ {Stop}
    BY <1>0, <1>2 DEF ToWrite, Contains
  <2>2. QED
    BY <1>2, <2>1
<1>3. QED
  BY <1>1, <1>2

-----------------------------------------------------------------------------
(* Types.                                                                  *)

Client == [st : States, maxWait : Waits, deadline : Waits, connected : BOOLEAN,
           will : BOOLEAN, managed : BOOLEAN, subscribed : BOOLEAN]
Reader == [at : {"head", "arm", "read", "check", "send", "leave", "leaving", "done"},
           st : States, wait : Waits, send : Kinds \cup {"none"}]
Writer == [at : {"take", "fill", "write", "leaving", "done"}, bulk : Seq(Kinds)]
History == [queued : Seq(Kinds), written : Seq(Kinds \ {Stop}), failed : BOOLEAN, wills : Nat]
Places == {"none", "test", "will", "stop", "release"}

QueueOK == queue \in Seq(Kinds) /\ Len(queue) <= Cap
WriterOK == writer \in Writer /\ Len(writer.bulk) <= Cap
LoopsOK == /\ reader \in Reader
           /\ reader.at \in {"check", "send"} => reader.send # "none"
           /\ disc \in [Callers -> Places] /\ producer \in [Producers -> {"idle", "send"}]
FlagsOK == drained \in BOOLEAN /\ served \in BOOLEAN /\ panicked \in BOOLEAN
CountersOK == reads \in 0..MaxReads /\ msgs \in 0..MaxMsgs

(* What the read loop is to queue is a packet.                             *)
TypeInv == /\ c \in Client /\ QueueOK /\ WriterOK /\ LoopsOK /\ FlagsOK /\ CountersOK
           /\ history \in History

LEMMA TypeInvImplies == TypeInv => TypeOK
BY DEF TypeInv, TypeOK, Client, QueueOK, WriterOK, LoopsOK, FlagsOK, CountersOK, Reader,
       Writer, History, Places

LEMMA InitTypes == Init => TypeInv
<1> SUFFICES ASSUME Init PROVE TypeInv
  OBVIOUS
<1>1. c \in Client
  BY DEF Init, Client, States, Waits
<1>2. QueueOK /\ WriterOK
  BY BoundsAssumption DEF Init, QueueOK, WriterOK, Writer
<1>3. LoopsOK
  BY DEF Init, LoopsOK, Reader, Places, States, Waits
<1>4. FlagsOK
  BY Zenon DEF Init, FlagsOK
<1>5. CountersOK
  BY BoundsAssumption DEF Init, CountersOK
<1>6. history \in History
  BY DEF Init, History
<1>7. QED
  BY <1>1, <1>2, <1>3, <1>4, <1>5, <1>6 DEF TypeInv

LEMMA SendTypes ==
  ASSUME QueueOK, history \in History, NEW p \in Kinds, Send(p)
  PROVE  /\ QueueOK' /\ history' \in History
         /\ history'.written = history.written /\ history'.failed = history.failed
         /\ history'.wills = history.wills
<1>1. queue' = Append(queue, p) /\ Len(queue) < Cap
  BY DEF Send
<1>2. QueueOK'
  BY <1>1, AppendProperties, LenProperties, BoundsAssumption DEF QueueOK
<1>3. Append(history.queued, p) \in Seq(Kinds)
  BY AppendProperties DEF History
<1>4. history' = history \/ history' = [history EXCEPT !.queued = Append(history.queued, p)]
  BY DEF Send
<1>5. QED
  BY <1>2, <1>3, <1>4 DEF History

LEMMA EnterTypes ==
  ASSUME TypeInv, NEW w \in Callers, DiscEnter(w)
  PROVE  c' \in Client /\ disc' \in [Callers -> Places]
<1>1. c \in Client /\ disc \in [Callers -> Places]
  BY DEF TypeInv, LoopsOK
<1>2. CASE FirstCaller
  <2>1. /\ c' = [c EXCEPT !.st = "disconnected", !.maxWait = "soon"]
        /\ disc' = [disc EXCEPT ![w] = "test"]
    BY <1>2 DEF DiscEnter
  <2>2. c' \in Client
    BY <1>1, <2>1 DEF Client, States, Waits
  <2>3. QED
    BY <1>1, <2>1, <2>2 DEF Places
<1>3. CASE ~FirstCaller
  BY <1>1, <1>3 DEF DiscEnter
<1>4. QED
  BY <1>2, <1>3

(* What a step does not touch keeps its type.                              *)
LEMMA Untouched ==
  /\ QueueOK /\ UNCHANGED queue => QueueOK'
  /\ WriterOK /\ UNCHANGED writer => WriterOK'
  /\ LoopsOK /\ UNCHANGED <<reader, disc, producer>> => LoopsOK'
  /\ FlagsOK /\ UNCHANGED flags => FlagsOK'
  /\ CountersOK /\ UNCHANGED counters => CountersOK'
BY DEF QueueOK, WriterOK, LoopsOK, FlagsOK, CountersOK, flags, counters

(* SetDisconnected.                                                        *)
LEMMA DiscTypes ==
  ASSUME TypeInv, NEW w \in Callers, SetDisconnected(w)
  PROVE  TypeInv'
<1> USE DEF TypeInv
<1>1. /\ UNCHANGED <<reader, writer, producer, drained, served, counters>>
      /\ \E to \in Places : disc' = [disc EXCEPT ![w] = to]
  BY DEF SetDisconnected, DiscTestWill, DiscPublishWill, DiscStop, DiscRelease, DiscGoes, Places
<1>2. LoopsOK'
  BY <1>1 DEF LoopsOK
<1>3. c' \in Client
  BY DEF SetDisconnected, DiscTestWill, DiscPublishWill, DiscStop, DiscRelease, Client, Waits
<1>4. QueueOK' /\ history' \in History
  <2>1. CASE DiscStop(w)
    BY <2>1, SendTypes DEF DiscStop, Kinds
  <2>2. CASE ~DiscStop(w)
    <3>1. UNCHANGED queue
      BY <2>2 DEF SetDisconnected, DiscTestWill, DiscPublishWill, DiscRelease
    <3>2. history' = history \/ history' = [history EXCEPT !.wills = @ + 1]
      BY <2>2 DEF SetDisconnected, DiscTestWill, DiscPublishWill, DiscRelease
    <3>3. QED
      BY <3>1, <3>2, Untouched DEF History
  <2>3. QED
    BY <2>1, <2>2
<1>5. FlagsOK'
  <2>1. panicked' \in BOOLEAN
    BY Zenon DEF SetDisconnected, DiscTestWill, DiscPublishWill, DiscStop, DiscRelease, FlagsOK
  <2>2. QED
    BY <1>1, <2>1 DEF FlagsOK
<1>6. QED
  BY <1>1, <1>2, <1>3, <1>4, <1>5, Untouched

(* readLoop.                                                               *)
LEMMA ReadTypes ==
  ASSUME TypeInv, ReadLoop \/ ReadEOF
  PROVE  TypeInv'
<1> USE DEF TypeInv
<1>1. UNCHANGED <<writer, producer, flags, counters>>
  BY DEF ReadLoop, ReadHead, ReadArm, ReadCheck, ReadSend, ReadLeave, ReadDone, ReadEOF,
     ReaderGoes, counters
<1>2. CASE ReadSend
  <2>1. reader.send \in Kinds /\ Send(reader.send) /\ disc' = disc
    BY <1>2 DEF ReadSend, ReaderGoes, LoopsOK, Reader
  <2>2. c' \in Client
    BY <1>2 DEF ReadSend, Client
  <2>3. LoopsOK'
    BY <1>1, <1>2, <2>1 DEF ReadSend, ReaderGoes, AfterSend, LoopsOK, Reader
  <2>4. QED
    BY <1>1, <2>1, <2>2, <2>3, SendTypes, Untouched
<1>3. CASE ReadHead
  <2>1. LoopsOK'
    BY <1>3 DEF ReadHead, LoopsOK, Reader, Client
  <2>2. QED
    BY <1>1, <1>3, <2>1, Untouched DEF ReadHead
<1>4. CASE ReadArm
  <2>1. LoopsOK' /\ c' \in Client
    BY <1>4 DEF ReadArm, ReaderGoes, LoopsOK, Reader, Client
  <2>2. QED
    BY <1>1, <1>4, <2>1, Untouched DEF ReadArm
<1>5. CASE ReadCheck \/ ReadDone \/ ReadEOF
  <2>1. LoopsOK' /\ UNCHANGED <<c, queue, history>>
    BY <1>5 DEF ReadCheck, ReadDone, ReadEOF, AfterSend, ReaderGoes, LoopsOK, Reader
  <2>2. QED
    BY <1>1, <2>1, Untouched
<1>6. CASE ReadLeave
  <2>1. c' \in Client /\ disc' \in [Callers -> Places]
    BY <1>6, EnterTypes DEF ReadLeave, Callers
  <2>2. LoopsOK'
    BY <1>6, <2>1 DEF ReadLeave, ReaderGoes, LoopsOK, Reader
  <2>3. QED
    BY <1>1, <1>6, <2>1, <2>2, Untouched DEF ReadLeave
<1>7. QED
  BY <1>2, <1>3, <1>4, <1>5, <1>6 DEF ReadLoop

LEMMA PacketTypes ==
  ASSUME TypeInv, ReadPacket, ~ReadEOF
  PROVE  TypeInv'
<1> USE DEF TypeInv
<1>1. /\ reads < MaxReads /\ reads' = reads + 1
      /\ UNCHANGED <<queue, writer, disc, producer, flags, msgs, history>>
  BY DEF ReadPacket, ReadUnexpected, ReadConnect, ReadPing, ReadSubscribe, ReadPublish,
     ReadDisconnect, Receives
<1>2. LoopsOK'
  <2>1. CASE ReadUnexpected \/ ReadPublish \/ ReadDisconnect
    BY <1>1, <2>1 DEF ReadUnexpected, ReadPublish, ReadDisconnect, Receives, LoopsOK, Reader
  <2>2. CASE ReadPing \/ ReadSubscribe
    BY <1>1, <2>2 DEF ReadPing, ReadSubscribe, Receives, LoopsOK, Reader, Kinds
  <2>3. ASSUME NEW answer \in {"connack", "refused"}, NEW recorded \in BOOLEAN,
               ReadConnect(answer, recorded)
        PROVE  LoopsOK'
    BY <1>1, <2>3 DEF ReadConnect, Receives, LoopsOK, Reader, Kinds
  <2>4. QED
    BY <2>1, <2>2, <2>3 DEF ReadPacket
<1>3. CountersOK'
  BY <1>1, BoundsAssumption DEF CountersOK
<1>4. c' \in Client
  <2>1. ASSUME NEW answer \in {"connack", "refused"}, NEW recorded \in BOOLEAN,
               ReadConnect(answer, recorded)
        PROVE  c' \in Client
    <3>1. (HasWill /\ recorded) \in BOOLEAN
      BY FlagsAssumption, Zenon
    <3>2. QED
      BY <2>1, <3>1 DEF ReadConnect, Client, States, Waits
  <2>2. CASE ReadUnexpected \/ ReadPing \/ ReadSubscribe \/ ReadPublish \/ ReadDisconnect
    BY <2>2 DEF ReadUnexpected, ReadPing, ReadSubscribe, ReadPublish, ReadDisconnect, Client
  <2>3. QED
    BY <2>1, <2>2 DEF ReadPacket
<1>5. QED
  BY <1>1, <1>2, <1>3, <1>4, Untouched

(* writeLoop.                                                              *)
LEMMA WriteTypes ==
  ASSUME TypeInv, WriteLoop \/ WriteError
  PROVE  TypeInv'
<1> USE DEF TypeInv
<1>1. UNCHANGED <<reader, producer, flags, counters>>
  BY DEF WriteLoop, WriteTake, WriteFilled, Write, WriteDone, WriteError, WriterGoes, counters
<1>2. writer.bulk \in Seq(Kinds)
  BY DEF WriterOK, Writer
<1>3. ASSUME NEW from \in {"take", "fill"}, WriteTake(from)
      PROVE  TypeInv'
  <2>1. Head(queue) \in Kinds /\ Tail(queue) \in Seq(Kinds) /\ Len(Tail(queue)) <= Cap
    BY <1>3, HeadTailProperties, LenProperties, BoundsAssumption DEF WriteTake, QueueOK
  <2>2. /\ Append(writer.bulk, Head(queue)) \in Seq(Kinds)
        /\ Len(Append(writer.bulk, Head(queue))) <= Cap
    BY <1>2, <1>3, <2>1, AppendProperties, LenProperties, BoundsAssumption DEF WriteTake
  <2>3. QueueOK' /\ WriterOK'
    BY <1>3, <2>1, <2>2 DEF WriteTake, WriterGoes, QueueOK, WriterOK, Writer
  <2>4. QED
    BY <1>1, <1>3, <2>3, Untouched DEF WriteTake
<1>4. CASE WriteFilled \/ WriteDone
  <2>1. WriterOK'
    <3>1. CASE WriteFilled
      BY <3>1 DEF WriteFilled, WriterGoes, WriterOK, Writer
    <3>2. CASE WriteDone
      BY <3>2, BoundsAssumption DEF WriteDone, WriterGoes, WriterOK, Writer
    <3>3. QED
      BY <1>4, <3>1, <3>2
  <2>2. QED
    BY <1>1, <1>4, <2>1, Untouched DEF WriteFilled, WriteDone
<1>5. CASE Write
  <2>1. WriterOK'
    <3>1. AfterWrite \in {"take", "done"}
      BY Zenon DEF AfterWrite
    <3>2. QED
      BY <1>5, <3>1, BoundsAssumption DEF Write, WriterGoes, WriterOK, Writer
  <2>2. history' \in History
    <3>1. history.written \o ToWrite(writer.bulk) \in Seq(Kinds \ {Stop})
      BY <1>2, WhatIsWritten, ConcatProperties DEF History
    <3>2. QED
      BY <1>5, <3>1 DEF Write, History
  <2>3. QED
    BY <1>1, <1>5, <2>1, <2>2, Untouched DEF Write
<1>6. CASE WriteError
  <2>1. WriterOK'
    BY <1>6, BoundsAssumption DEF WriteError, WriterGoes, WriterOK, Writer
  <2>2. c' \in Client /\ disc' \in [Callers -> Places]
    BY <1>6, EnterTypes DEF WriteError, Callers, LoopsOK
  <2>3. LoopsOK'
    BY <1>1, <2>2 DEF LoopsOK
  <2>4. history' \in History
    BY <1>6 DEF WriteError, History
  <2>5. QED
    BY <1>1, <1>6, <2>1, <2>2, <2>3, <2>4, Untouched DEF WriteError
<1>7. QED
  BY <1>3, <1>4, <1>5, <1>6 DEF WriteLoop

(* The callbacks, the drain and the end of Serve.                          *)
LEMMA OtherTypes ==
  ASSUME TypeInv,
         (\E p \in Producers : ProducerCheck(p) \/ ProducerSend(p)) \/ Drain \/ ServeReturns
  PROVE  TypeInv'
<1> USE DEF TypeInv
<1>1. ASSUME NEW p \in Producers, ProducerCheck(p)
      PROVE  TypeInv'
  <2>1. LoopsOK'
    BY <1>1 DEF ProducerCheck, LoopsOK
  <2>2. CountersOK'
    BY <1>1, BoundsAssumption DEF ProducerCheck, CountersOK
  <2>3. QED
    BY <1>1, <2>1, <2>2, Untouched DEF ProducerCheck
<1>2. ASSUME NEW p \in Producers, ProducerSend(p)
      PROVE  TypeInv'
  <2>1. LoopsOK'
    BY <1>2 DEF ProducerSend, LoopsOK
  <2>2. QueueOK' /\ history' \in History
    BY <1>2, SendTypes DEF ProducerSend, Kinds
  <2>3. QED
    BY <1>2, <2>1, <2>2, Untouched DEF ProducerSend
<1>3. CASE Drain
  <2>1. c' \in Client /\ disc' \in [Callers -> Places]
    BY <1>3, EnterTypes DEF Drain, Callers
  <2>2. LoopsOK' /\ FlagsOK'
    BY <1>3, <2>1 DEF Drain, LoopsOK, FlagsOK
  <2>3. QED
    BY <1>3, <2>1, <2>2, Untouched DEF Drain
<1>4. CASE ServeReturns
  BY <1>4, Untouched DEF ServeReturns, loops, FlagsOK
<1>5. QED
  BY <1>1, <1>2, <1>3, <1>4

LEMMA TypesStay == TypeInv /\ [Next]_vars => TypeInv'
<1> SUFFICES ASSUME TypeInv, [Next]_vars PROVE TypeInv'
  OBVIOUS
<1>1. CASE UNCHANGED vars
  BY <1>1, Untouched DEF vars, loops, TypeInv
<1>2. CASE Next
  BY <1>2, ReadTypes, PacketTypes, WriteTypes, DiscTypes, OtherTypes DEF Next, ReadTimeout
<1>3. QED
  BY <1>1, <1>2

LEMMA Typed == Spec => []TypeInv
<1>1. QED
  BY InitTypes, TypesStay, PTL DEF Spec

(* Every variable keeps its type: no goroutine overfills writeQueue or a   *)
(* bulk, and the packet that ends writeLoop is not written.                *)
THEOREM TypeCorrect == Spec => []TypeOK
<1>1. QED
  BY Typed, TypeInvImplies, PTL

-----------------------------------------------------------------------------
(* The will.  Before a client has connected nothing happens that could end *)
(* its connection but the end of the read loop; afterwards one caller of   *)
(* SetDisconnected gets past the test of the state, decides about the will *)
(* and publishes it, and the will it then leaves has been published.       *)

Active(w) == disc[w] # "none"
Deciding(w) == disc[w] \in {"test", "will"}
Ended == c.st = "disconnected"
Fresh == /\ queue = <<>> /\ writer.bulk = <<>> /\ ~c.managed /\ ~c.will
         /\ \A p \in Producers : producer[p] = "idle"
         /\ reader.at \notin {"check", "send"} /\ reader.st = "infant"

WillInv ==
    /\ c.st = "infant" => Fresh
    /\ reader.at \in {"arm", "read"} /\ reader.st = "infant" => c.st = "infant"
    /\ c.will => c.connected
    /\ ~Ended => history.wills = 0 /\ \A w \in Callers : ~Active(w)
    /\ \A v, w \in Callers : Active(v) /\ Active(w) => v = w
    /\ (\E w \in Callers : Deciding(w)) => history.wills = 0
    /\ Ended /\ c.will /\ (\A w \in Callers : ~Deciding(w)) => history.wills = 1
    /\ history.wills <= 1
    /\ reader.at \in {"leaving", "done"} => Ended
    /\ served => reader.at = "done"

(* The first caller becomes the one that decides, later ones do nothing.   *)
LEMMA EnterKeepsWill ==
  ASSUME TypeInv, WillInv, NEW w \in Callers, DiscEnter(w)
  PROVE  /\ Ended' /\ c'.will = c.will /\ c'.connected = c.connected
         /\ \A v \in Callers : Active(v)' => (v = w /\ ~Ended) \/ Active(v)
         /\ \A u, v \in Callers : Active(u)' /\ Active(v)' => u = v
         /\ \A v \in Callers : Deciding(v)' => (v = w /\ ~Ended) \/ Deciding(v)
         /\ Ended => UNCHANGED <<c, disc>>
         /\ ~Ended => Deciding(w)'
<1> USE DEF Ended, Active, Deciding
<1>1. CASE Ended
  BY <1>1 DEF DiscEnter, FirstCaller, WillInv
<1>2. CASE ~Ended
  <2>1. /\ c' = [c EXCEPT !.st = "disconnected", !.maxWait = "soon"]
        /\ disc' = [disc EXCEPT ![w] = "test"]
    BY <1>2 DEF DiscEnter, FirstCaller
  <2>2. \A v \in Callers : disc'[v] = IF v = w THEN "test" ELSE "none"
    BY <1>2, <2>1 DEF WillInv, TypeInv, LoopsOK
  <2>3. c'.st = "disconnected" /\ c'.will = c.will /\ c'.connected = c.connected
    BY <2>1 DEF TypeInv, Client
  <2>4. QED
    BY <1>2, <2>2, <2>3
<1>3. QED
  BY <1>1, <1>2

(* A step that enters SetDisconnected, and otherwise keeps what counts.    *)
LEMMA EnteringStep ==
  ASSUME TypeInv, WillInv, NEW w \in Callers, DiscEnter(w),
         history'.wills = history.wills, served' = served,
         reader'.at = reader.at \/ reader'.at = "leaving",
         served => reader'.at = reader.at,
         c.st = "infant" => reader'.at = "leaving",
         reader'.st = reader.st
  PROVE  WillInv'
<1>1. reader'.at \in {"arm", "read"} /\ reader'.st = "infant" => FALSE
  <2>1. reader'.at \in {"arm", "read"} => reader.at = reader'.at
    OBVIOUS
  <2>2. QED
    BY <2>1 DEF WillInv
<1>2. c'.will => c'.connected
  BY EnterKeepsWill DEF WillInv
<1>3. /\ (\E v \in Callers : Deciding(v)') => history.wills = 0
      /\ c'.will /\ (\A v \in Callers : ~Deciding(v)') => history.wills = 1
  <2>1. CASE Ended
    <3>1. UNCHANGED <<c, disc>>
      BY <2>1, EnterKeepsWill
    <3>2. QED
      BY <2>1, <3>1 DEF WillInv, Deciding
  <2>2. CASE ~Ended
    BY <2>2, EnterKeepsWill DEF WillInv
  <2>3. QED
    BY <2>1, <2>2
<1>4. reader'.at \in {"leaving", "done"} => Ended'
  BY EnterKeepsWill
<1>5. served' => reader'.at = "done"
  BY DEF WillInv
<1>6. Ended' /\ c'.st # "infant"
  BY EnterKeepsWill DEF Ended
<1>7. \A u, v \in Callers : Active(u)' /\ Active(v)' => u = v
  BY EnterKeepsWill
<1>8. history'.wills <= 1
  BY DEF WillInv
<1>9. QED
  BY <1>1, <1>2, <1>3, <1>4, <1>5, <1>6, <1>7, <1>8 DEF WillInv

(* The test, the publishing, the stop and the release.                     *)
LEMMA SetDisconnectedKeepsWill ==
  ASSUME TypeInv, WillInv, NEW w \in Callers, SetDisconnected(w)
  PROVE  WillInv'
<1> USE DEF Active, Deciding
<1>1. /\ Active(w) /\ Ended /\ UNCHANGED <<reader, writer, producer, served>>
      /\ \A v \in Callers \ {w} : ~Active(v) /\ disc'[v] = disc[v]
  BY DEF SetDisconnected, DiscTestWill, DiscPublishWill, DiscStop, DiscRelease, DiscGoes,
     WillInv, TypeInv, LoopsOK
<1>2. c'.st = c.st /\ c'.will = c.will /\ c'.connected = c.connected
  BY DEF SetDisconnected, DiscTestWill, DiscPublishWill, DiscStop, DiscRelease, TypeInv, Client
<1>3. /\ history'.wills <= 1
      /\ Deciding(w)' => history'.wills = 0
      /\ c.will /\ ~Deciding(w)' => history'.wills = 1
  <2>1. CASE DiscTestWill(w)
    BY <1>1, <2>1 DEF DiscTestWill, DiscGoes, WillInv, TypeInv, LoopsOK
  <2>2. CASE DiscPublishWill(w)
    <3>1. disc[w] = "will" /\ disc'[w] = "stop" /\ history.wills = 0
      BY <2>2 DEF DiscPublishWill, DiscGoes, WillInv, TypeInv, LoopsOK
    <3>2. history'.wills = IF c.will THEN 1 ELSE 0
      BY <2>2, <3>1 DEF DiscPublishWill, TypeInv, History
    <3>3. QED
      BY <3>1, <3>2
  <2>3. CASE DiscStop(w) \/ DiscRelease(w)
    <3>1. disc[w] \in {"stop", "release"} /\ disc'[w] \in {"release", "none"}
      BY <2>3 DEF DiscStop, DiscRelease, DiscGoes, TypeInv, LoopsOK
    <3>2. history'.wills = history.wills
      BY <2>3, SendTypes DEF DiscStop, DiscRelease, TypeInv, Kinds
    <3>3. QED
      BY <1>1, <3>1, <3>2 DEF WillInv
  <2>4. QED
    BY <2>1, <2>2, <2>3 DEF SetDisconnected
<1>4. \A u, v \in Callers : Active(u)' /\ Active(v)' => u = v
  BY <1>1
<1>5. (\E v \in Callers : Deciding(v)') => Deciding(w)'
  BY <1>1
<1>6. QED
  BY <1>1, <1>2, <1>3, <1>4, <1>5 DEF WillInv, Ended

LEMMA ReadKeepsWill ==
  ASSUME TypeInv, WillInv, ReadLoop \/ ReadEOF
  PROVE  WillInv'
<1> USE DEF TypeInv, LoopsOK, Reader
<1>1. CASE ReadLeave
  <2>1. /\ reader.at = "leave" /\ reader' = [reader EXCEPT !.at = "leaving"]
        /\ DiscEnter("reader") /\ served' = served /\ history' = history
    BY <1>1 DEF ReadLeave, ReaderGoes, flags
  <2>2. reader'.at = "leaving" /\ reader'.st = reader.st /\ ~served
    BY <2>1 DEF WillInv
  <2>3. QED
    BY <2>1, <2>2, EnteringStep DEF Callers
<1>2. CASE ReadHead
  <2>1. /\ UNCHANGED <<c, queue, writer, disc, producer, served, history>>
        /\ reader.at = "head" /\ reader'.st = c.st
        /\ reader'.at = IF c.st = "disconnected" THEN "leave" ELSE "arm"
    BY <1>2 DEF ReadHead, flags
  <2>2. QED
    BY <2>1 DEF WillInv, Ended, Active, Deciding, Fresh
<1>3. CASE ReadArm \/ ReadCheck \/ ReadEOF \/ ReadDone \/ ReadSend
  <2>1. /\ UNCHANGED <<writer, producer, disc, served>>
        /\ history'.wills = history.wills
        /\ c'.st = c.st /\ c'.will = c.will /\ c'.connected = c.connected
        /\ reader'.st = reader.st
    <3>1. CASE ReadSend
      BY <1>3, <3>1, SendTypes DEF ReadSend, ReaderGoes, flags, Client
    <3>2. CASE ~ReadSend
      BY <1>3, <3>2 DEF ReadArm, ReadCheck, ReadEOF, ReadDone, ReaderGoes, flags, Client
    <3>3. QED
      BY <3>1, <3>2
  <2>2. /\ reader'.at \in {"arm", "read"} => reader.at \in {"arm", "read"}
        /\ reader'.at \in {"leaving", "done"} => reader.at \in {"leaving", "done"}
        /\ served => reader'.at = "done"
    BY <1>3 DEF ReadArm, ReadCheck, ReadEOF, ReadDone, ReadSend, AfterSend, ReaderGoes, WillInv
  <2>3. c.st = "infant" => Fresh'
    <3>1. SUFFICES ASSUME c.st = "infant" PROVE Fresh'
      OBVIOUS
    <3>2. ReadArm \/ ReadEOF \/ ReadDone
      BY <1>3, <3>1 DEF WillInv, Fresh, ReadCheck, ReadSend, ReaderGoes
    <3>3. UNCHANGED queue /\ c'.managed = c.managed /\ reader'.at \in {"read", "leave", "done"}
      BY <3>2 DEF ReadArm, ReadEOF, ReadDone, ReaderGoes, Client
    <3>4. QED
      BY <2>1, <3>1, <3>3 DEF WillInv, Fresh
  <2>4. QED
    BY <2>1, <2>2, <2>3 DEF WillInv, Ended, Active, Deciding
<1>4. QED
  BY <1>1, <1>2, <1>3 DEF ReadLoop

LEMMA PacketKeepsWill ==
  ASSUME TypeInv, WillInv, ReadPacket, ~ReadEOF
  PROVE  WillInv'
<1> USE DEF TypeInv, LoopsOK, Reader
<1>1. /\ UNCHANGED <<queue, writer, disc, producer, served, history>>
      /\ reader.at = "read" /\ reader'.st = reader.st
      /\ reader'.at \in {"leave", "check", "head"}
  BY DEF ReadPacket, ReadUnexpected, ReadConnect, ReadPing, ReadSubscribe, ReadPublish,
     ReadDisconnect, Receives, flags
<1>2. ASSUME NEW answer \in {"connack", "refused"}, NEW recorded \in BOOLEAN,
             ReadConnect(answer, recorded)
      PROVE  WillInv'
  <2>1. c.st = "infant"
    BY <1>1, <1>2 DEF ReadConnect, Receives, WillInv
  <2>2. c'.st = "connected" /\ c'.will = (HasWill /\ recorded) /\ c'.connected = recorded
    BY <1>2 DEF ReadConnect, Client
  <2>3. c'.will => c'.connected
    BY <2>2
  <2>4. QED
    BY <1>1, <2>1, <2>2, <2>3 DEF WillInv, Ended, Active, Deciding
<1>3. CASE ReadUnexpected
  BY <1>1, <1>3 DEF ReadUnexpected, Receives, WillInv, Ended, Active, Deciding, Fresh
<1>4. CASE ReadPing \/ ReadSubscribe \/ ReadPublish \/ ReadDisconnect
  <2>1. reader.st = "connected" /\ c.st # "infant"
    BY <1>4 DEF ReadPing, ReadSubscribe, ReadPublish, ReadDisconnect, Receives, WillInv, Fresh
  <2>2. c'.st = c.st /\ c'.connected = c.connected /\ (c'.will => c.will)
    BY <1>4 DEF ReadPing, ReadSubscribe, ReadPublish, ReadDisconnect, Client
  <2>3. QED
    BY <1>1, <2>1, <2>2 DEF WillInv, Ended, Active, Deciding
<1>5. QED
  BY <1>2, <1>3, <1>4 DEF ReadPacket

LEMMA WriteKeepsWill ==
  ASSUME TypeInv, WillInv, WriteLoop \/ WriteError
  PROVE  WillInv'
<1> USE DEF TypeInv, WriterOK, Writer
<1>1. UNCHANGED <<reader, producer, served>> /\ history'.wills = history.wills
  BY DEF WriteLoop, WriteTake, WriteFilled, Write, WriteDone, WriteError, WriterGoes, flags,
     History
<1>2. CASE WriteLoop
  <2>1. UNCHANGED <<c, disc>>
    BY <1>2 DEF WriteLoop, WriteTake, WriteFilled, Write, WriteDone
  <2>2. queue = <<>> /\ writer.bulk = <<>> => queue' = <<>> /\ writer'.bulk = <<>>
    BY <1>2 DEF WriteLoop, WriteTake, WriteFilled, Write, WriteDone, WriterGoes
  <2>3. QED
    BY <1>1, <2>1, <2>2 DEF WillInv, Ended, Active, Deciding, Fresh
<1>3. CASE WriteError
  <2>1. writer.bulk # <<>>
    <3>1. ToWrite(<<>>) = <<>>
      BY DEF ToWrite, Contains
    <3>2. QED
      BY <1>3, <3>1 DEF WriteError
  <2>2. c.st # "infant"
    BY <2>1 DEF WillInv, Fresh
  <2>3. CASE DiscEnter("writer")
    BY <1>1, <2>2, <2>3, EnteringStep DEF Callers
  <2>4. CASE UNCHANGED <<c, disc>>
    BY <1>1, <2>2, <2>4 DEF WillInv, Ended, Active, Deciding
  <2>5. QED
    BY <1>3, <2>3, <2>4 DEF WriteError
<1>4. QED
  BY <1>2, <1>3

LEMMA OthersKeepWill ==
  ASSUME TypeInv, WillInv,
         (\E p \in Producers : ProducerCheck(p) \/ ProducerSend(p)) \/ Drain \/ ServeReturns
  PROVE  WillInv'
<1> USE DEF TypeInv
<1>1. ASSUME NEW p \in Producers, ProducerCheck(p) \/ ProducerSend(p)
      PROVE  WillInv'
  <2>1. UNCHANGED <<c, disc, reader, served>> /\ history'.wills = history.wills
    BY <1>1, SendTypes DEF ProducerCheck, ProducerSend, flags, Kinds
  <2>2. c.st # "infant"
    BY <1>1 DEF ProducerCheck, WhenConnected, ProducerSend, WillInv, Fresh
  <2>3. QED
    BY <2>1, <2>2 DEF WillInv, Ended, Active, Deciding
<1>2. CASE Drain
  <2>1. c.st # "infant" /\ UNCHANGED <<reader, served, history>> /\ DiscEnter("drain")
    BY <1>2 DEF Drain, WillInv, Fresh
  <2>2. QED
    BY <2>1, EnteringStep DEF Callers
<1>3. CASE ServeReturns
  BY <1>3 DEF ServeReturns, loops, WillInv, Ended, Active, Deciding, Fresh
<1>4. QED
  BY <1>1, <1>2, <1>3

LEMMA WillStays == TypeInv /\ WillInv /\ [Next]_vars => WillInv'
<1> SUFFICES ASSUME TypeInv, WillInv, [Next]_vars PROVE WillInv'
  OBVIOUS
<1>1. CASE UNCHANGED vars
  BY <1>1 DEF vars, loops, flags, WillInv, Ended, Active, Deciding, Fresh
<1>2. CASE Next
  BY <1>2, SetDisconnectedKeepsWill, ReadKeepsWill, PacketKeepsWill, WriteKeepsWill,
     OthersKeepWill DEF Next, ReadTimeout
<1>3. QED
  BY <1>1, <1>2

(* SetDisconnected, called by up to three goroutines at once, publishes a  *)
(* will at most once, and has published it when Serve has returned and no  *)
(* call is in progress, unless a DISCONNECT discarded it.                  *)
THEOREM OneWillPerConnection == Spec => []WillPublishedOnce
<1>1. Init => WillInv
  BY DEF Init, WillInv, Ended, Active, Deciding, Fresh
<1>2. WillInv => WillPublishedOnce
  BY DEF WillInv, WillPublishedOnce, Ended, Deciding
<1>3. QED
  BY <1>1, <1>2, Typed, WillStays, PTL DEF Spec

-----------------------------------------------------------------------------
(* The packets.  While the write loop runs, what is written, in the bulk   *)
(* and in the queue are, in this order, what was queued; packets behind    *)
(* the stop do not count.                                                  *)

NWritten == Len(history.written)
NBulk == Len(writer.bulk)
NQueued == Len(history.queued)
Total == NWritten + NBulk + Len(queue)
PacketAt(i) == IF i <= NWritten THEN history.written[i]
             ELSE IF i <= NWritten + NBulk THEN writer.bulk[i - NWritten]
             ELSE queue[i - NWritten - NBulk]

Writes == ~history.failed /\ writer.at # "done"
StopIsLast == \A i \in 1..NQueued : history.queued[i] = Stop => i = NQueued
InOrder ==
    /\ NQueued <= Total /\ \A i \in 1..NQueued : PacketAt(i) = history.queued[i]
    /\ NQueued < Total => Contains(history.queued, Stop)
WrittenIsPrefix ==
    NWritten <= NQueued /\ \A i \in 1..NWritten : history.queued[i] = history.written[i]
EndsAtStop == NQueued = NWritten + 1 /\ history.queued[NQueued] = Stop

FlushInv ==
    /\ StopIsLast /\ WrittenIsPrefix
    /\ Writes => InOrder
    /\ history.failed => writer.at \in {"leaving", "done"}
    /\ writer.at = "leaving" => history.failed
    /\ writer.at = "done" /\ ~history.failed => EndsAtStop

LEMMA Lengths ==
  ASSUME TypeInv
  PROVE  /\ NWritten \in Nat /\ NBulk \in Nat /\ NQueued \in Nat /\ Len(queue) \in Nat
         /\ history.queued \in Seq(Kinds) /\ history.written \in Seq(Kinds)
         /\ writer.bulk \in Seq(Kinds) /\ queue \in Seq(Kinds)
         /\ \A i \in 1..NWritten : history.written[i] # Stop
<1>1. /\ history.queued \in Seq(Kinds) /\ history.written \in Seq(Kinds \ {Stop})
      /\ writer.bulk \in Seq(Kinds) /\ queue \in Seq(Kinds)
  BY DEF TypeInv, History, WriterOK, Writer, QueueOK
<1>2. history.written \in Seq(Kinds)
  BY <1>1, SeqMonotonic
<1>3. \A i \in 1..NWritten : history.written[i] # Stop
  BY <1>1, ElementOfSeq DEF NWritten
<1>4. QED
  BY <1>1, <1>2, <1>3, LenProperties DEF NWritten, NBulk, NQueued

LEMMA SendKeepsOrder ==
  ASSUME TypeInv, FlushInv, NEW p \in Kinds, Send(p), writer' = writer
  PROVE  FlushInv'
<1>0. /\ NWritten \in Nat /\ NBulk \in Nat /\ NQueued \in Nat /\ Len(queue) \in Nat
      /\ Total = NWritten + NBulk + Len(queue) /\ Total \in Nat
  BY Lengths DEF Total
<1>1. /\ queue' = Append(queue, p) /\ Len(queue') = Len(queue) + 1
      /\ queue'[Len(queue) + 1] = p /\ \A i \in 1..Len(queue) : queue'[i] = queue[i]
  BY Lengths, AppendProperties DEF Send
<1>2. /\ history'.written = history.written /\ history'.failed = history.failed
      /\ NWritten' = NWritten /\ NBulk' = NBulk
  BY SendTypes DEF TypeInv, NWritten, NBulk
<1>3. /\ Total' = Total + 1 /\ \A i \in {Total + 1} : PacketAt(i)' = p
      /\ \A i \in 1..Total : PacketAt(i)' = PacketAt(i)
  <2>1. Total' = Total + 1
    <3>1. Total' = NWritten' + NBulk' + Len(queue')
      BY DEF Total
    <3>2. QED
      BY <1>0, <1>1, <1>2, <3>1
  <2>2. ASSUME NEW i \in {Total + 1}
        PROVE  PacketAt(i)' = p
    <3>1. /\ ~(i <= NWritten) /\ ~(i <= NWritten + NBulk)
          /\ i - NWritten - NBulk = Len(queue) + 1
      BY <1>0
    <3>2. QED
      BY <1>1, <1>2, <3>1 DEF PacketAt
  <2>3. ASSUME NEW i \in 1..Total
        PROVE  PacketAt(i)' = PacketAt(i)
    <3>1. CASE i <= NWritten + NBulk
      BY <1>2, <3>1 DEF PacketAt
    <3>2. CASE i > NWritten + NBulk
      <4>1. i - NWritten - NBulk \in 1..Len(queue) /\ ~(i <= NWritten)
        BY <1>0, <3>2
      <4>2. ~(i <= NWritten + NBulk)
        BY <1>0, <3>2
      <4>3. QED
        BY <1>1, <1>2, <4>1, <4>2 DEF PacketAt
    <3>3. QED
      BY <1>0, <3>1, <3>2
  <2>4. QED
    BY <2>1, <2>2, <2>3
<1>4. CASE Contains(history.queued, Stop)
  <2>1. history' = history
    BY <1>4 DEF Send
  <2>2. QED
    <3>1. NQueued' = NQueued /\ NQueued \in Nat /\ Total \in Nat
      BY <2>1, Lengths DEF NQueued, Total
    <3>2. StopIsLast' /\ WrittenIsPrefix' /\ (EndsAtStop => EndsAtStop')
      BY <1>2, <2>1, <3>1 DEF FlushInv, StopIsLast, WrittenIsPrefix, EndsAtStop
    <3>3. Writes' => InOrder'
      BY <1>3, <1>4, <2>1, <3>1 DEF FlushInv, Writes, InOrder
    <3>4. QED
      BY <2>1, <3>2, <3>3 DEF FlushInv
<1>5. CASE ~Contains(history.queued, Stop)
  <2>1. history'.queued = Append(history.queued, p)
    BY <1>5 DEF Send, TypeInv, History
  <2>2. /\ NQueued' = NQueued + 1 /\ history'.queued[NQueued + 1] = p
        /\ \A i \in 1..NQueued : history'.queued[i] = history.queued[i]
    BY <2>1, Lengths, AppendProperties DEF NQueued
  <2>3. \A i \in 1..NQueued : history.queued[i] # Stop
    BY <1>5 DEF Contains, NQueued
  <2>4. StopIsLast'
    <3>1. \A i \in 1..NQueued : history'.queued[i] # Stop
      BY <2>2, <2>3
    <3>2. \A i \in 1..(NQueued + 1) : history'.queued[i] = Stop => i = NQueued + 1
      BY <1>0, <3>1
    <3>3. QED
      BY <2>2, <3>2 DEF StopIsLast
  <2>5. WrittenIsPrefix'
    <3>1. NWritten <= NQueued /\ \A i \in 1..NWritten : history.queued[i] = history.written[i]
      BY DEF FlushInv, WrittenIsPrefix
    <3>2. \A i \in 1..NWritten : history'.queued[i] = history.written[i]
      BY <1>0, <2>2, <3>1
    <3>3. NWritten <= NQueued + 1
      BY <1>0, <3>1
    <3>4. QED
      BY <1>2, <2>2, <3>2, <3>3 DEF WrittenIsPrefix
  <2>6. Writes' => InOrder'
    <3>1. SUFFICES ASSUME Writes PROVE InOrder'
      BY <1>2 DEF Writes
    <3>2. NQueued = Total
      <4>1. NQueued <= Total /\ ~(NQueued < Total) /\ Total \in Nat
        BY <1>5, <3>1, Lengths DEF FlushInv, InOrder, Total
      <4>2. QED
        BY <4>1, Lengths
    <3>3. \A i \in 1..NQueued' : PacketAt(i)' = history'.queued[i]
      <4>1. \A i \in 1..NQueued : PacketAt(i) = history.queued[i]
        BY <3>1 DEF FlushInv, InOrder
      <4>2. \A i \in {NQueued + 1} : PacketAt(i)' = history'.queued[i]
        BY <1>3, <2>2, <3>2
      <4>3. \A i \in 1..NQueued : PacketAt(i)' = history'.queued[i]
        BY <1>3, <2>2, <3>2, <4>1
      <4>4. QED
        BY <1>0, <2>2, <4>2, <4>3
    <3>4. NQueued' = Total'
      BY <1>3, <2>2, <3>2
    <3>5. QED
      BY <3>3, <3>4, Lengths, <2>2 DEF InOrder
  <2>7. ~(writer.at = "done" /\ ~history.failed)
    BY <2>3, Lengths DEF FlushInv, EndsAtStop
  <2>8. QED
    BY <1>2, <2>4, <2>5, <2>6, <2>7 DEF FlushInv
<1>6. QED
  BY <1>4, <1>5

(* Taking a packet moves it from the queue to the bulk.                    *)
LEMMA TakeKeepsOrder ==
  ASSUME TypeInv, FlushInv, NEW from \in {"take", "fill"}, WriteTake(from)
  PROVE  FlushInv'
<1>0. /\ NWritten \in Nat /\ NBulk \in Nat /\ Len(queue) \in Nat
      /\ Total = NWritten + NBulk + Len(queue) /\ Total \in Nat
  BY Lengths DEF Total
<1>1. /\ queue # <<>> /\ queue' = Tail(queue) /\ history' = history
      /\ writer.at = from /\ writer' = [at |-> "fill", bulk |-> Append(writer.bulk, Head(queue))]
  BY DEF WriteTake, WriterGoes
<1>2. /\ Head(queue) \in Kinds /\ Head(queue) = queue[1] /\ Len(queue') = Len(queue) - 1
      /\ \A i \in 1..Len(queue') : queue'[i] = queue[i + 1]
  BY <1>1, Lengths, HeadTailProperties
<1>3. /\ NWritten' = NWritten /\ NBulk' = NBulk + 1 /\ writer'.bulk[NBulk + 1] = queue[1]
      /\ \A i \in 1..NBulk : writer'.bulk[i] = writer.bulk[i]
  BY <1>1, <1>2, Lengths, AppendProperties DEF NWritten, NBulk
<1>4. Total' = Total
  <2>1. Total' = NWritten' + NBulk' + Len(queue')
    BY DEF Total
  <2>2. QED
    BY <1>0, <1>2, <1>3, <2>1
<1>5. ASSUME NEW i \in 1..Total
      PROVE  PacketAt(i)' = PacketAt(i)
  <2>1. CASE i <= NWritten
    BY <1>1, <1>3, <2>1 DEF PacketAt
  <2>2. CASE i > NWritten /\ i <= NWritten + NBulk
    <3>1. ~(i <= NWritten) /\ i <= NWritten + NBulk + 1 /\ i - NWritten \in 1..NBulk
          /\ i <= NWritten + (NBulk + 1)
      BY <1>0, <2>2
    <3>2. QED
      BY <1>3, <2>2, <3>1 DEF PacketAt
  <2>3. CASE i = NWritten + NBulk + 1
    <3>1. /\ ~(i <= NWritten) /\ ~(i <= NWritten + NBulk) /\ i <= NWritten + (NBulk + 1)
          /\ i - NWritten = NBulk + 1 /\ i - NWritten - NBulk = 1
      <4>1. NWritten \in Nat /\ NBulk \in Nat
        BY <1>0
      <4>2. \A a, b \in Nat : \A j \in {a + b + 1} :
              /\ ~(j <= a) /\ ~(j <= a + b) /\ j <= a + (b + 1)
              /\ j - a = b + 1 /\ j - a - b = 1
        OBVIOUS
      <4>3. QED
        BY <4>1, <4>2, <2>3
    <3>2. QED
      BY <1>3, <3>1 DEF PacketAt
  <2>4. CASE i > NWritten + NBulk + 1
    <3>1. /\ ~(i <= NWritten) /\ ~(i <= NWritten + NBulk) /\ ~(i <= NWritten + (NBulk + 1))
          /\ i - NWritten - (NBulk + 1) \in 1..Len(queue')
          /\ i - NWritten - (NBulk + 1) + 1 = i - NWritten - NBulk
      BY SMTT(30), <1>0, <1>2, <2>4
    <3>2. queue'[i - NWritten - (NBulk + 1)] = queue[i - NWritten - NBulk]
      BY <1>2, <3>1
    <3>3. QED
      BY <1>3, <3>1, <3>2 DEF PacketAt
  <2>5. QED
    BY <1>0, <2>1, <2>2, <2>3, <2>4
<1>6. NQueued' = NQueued /\ NQueued \in Nat
  BY <1>1, Lengths DEF NQueued
<1>7. StopIsLast' /\ WrittenIsPrefix'
  BY <1>1, <1>3, <1>6 DEF FlushInv, StopIsLast, WrittenIsPrefix
<1>8. Writes /\ InOrder'
  <2>1. Writes /\ InOrder
    BY <1>1 DEF FlushInv, Writes
  <2>2. QED
    BY <1>0, <1>1, <1>4, <1>5, <1>6, <2>1 DEF InOrder
<1>9. writer'.at = "fill" /\ ~history.failed
  BY <1>1 DEF FlushInv
<1>10. QED
  BY <1>1, <1>7, <1>8, <1>9 DEF FlushInv

(* A write moves the bulk, or what is ahead of its stop, to the client.    *)
LEMMA WriteKeepsOrder ==
  ASSUME TypeInv, FlushInv, Write
  PROVE  FlushInv'
<1> DEFINE n == Len(ToWrite(writer.bulk))
<1>1. /\ writer.at = "write" /\ writer' = [at |-> AfterWrite, bulk |-> <<>>] /\ queue' = queue
      /\ history'.written = history.written \o ToWrite(writer.bulk)
      /\ history'.queued = history.queued /\ history'.failed = history.failed
  BY DEF Write, WriterGoes, TypeInv, History
<1>2. ~history.failed /\ InOrder
  BY <1>1 DEF FlushInv, Writes
<1>3. /\ NWritten \in Nat /\ NBulk \in Nat /\ Len(queue) \in Nat /\ NQueued \in Nat
      /\ Total = NWritten + NBulk + Len(queue) /\ Total \in Nat
      /\ NQueued' = NQueued /\ NBulk' = 0
  BY <1>1, Lengths DEF Total, NQueued, NBulk
<1>4. /\ n \in Nat /\ \A i \in 1..n : ToWrite(writer.bulk)[i] = writer.bulk[i]
      /\ \A i \in 1..n : writer.bulk[i] # Stop
      /\ Contains(writer.bulk, Stop) => n + 1 \in 1..NBulk /\ writer.bulk[n + 1] = Stop
      /\ ~Contains(writer.bulk, Stop) => n = NBulk
  <2>1. /\ ToWrite(writer.bulk) \in Seq(Kinds \ {Stop})
        /\ n = IF Contains(writer.bulk, Stop) THEN StopAt(writer.bulk) - 1 ELSE NBulk
        /\ \A i \in 1..n : ToWrite(writer.bulk)[i] = writer.bulk[i]
    BY Lengths, WhatIsWritten DEF NBulk
  <2>2. n \in Nat /\ \A i \in 1..n : ToWrite(writer.bulk)[i] # Stop
    BY <2>1, LenProperties, ElementOfSeq
  <2>3. Contains(writer.bulk, Stop) =>
          StopAt(writer.bulk) \in 1..NBulk /\ writer.bulk[StopAt(writer.bulk)] = Stop
    BY Lengths, FirstStop DEF NBulk
  <2>4. Contains(writer.bulk, Stop) =>
          n + 1 = StopAt(writer.bulk) /\ n + 1 \in 1..NBulk /\ writer.bulk[n + 1] = Stop
    <3> HIDE DEF n
    <3>1. QED
      BY <1>3, <2>1, <2>3
  <2>5. QED
    BY <2>1, <2>2, <2>4
<1>5. /\ NWritten' = NWritten + n
      /\ \A i \in 1..NWritten' : history'.written[i] = PacketAt(i)
  <2>1. ToWrite(writer.bulk) \in Seq(Kinds)
    BY Lengths, WhatIsWritten, SeqMonotonic
  <2>2. /\ Len(history'.written) = Len(history.written) + n
        /\ \A i \in 1..(Len(history.written) + n) : history'.written[i] =
              IF i <= Len(history.written) THEN history.written[i]
              ELSE ToWrite(writer.bulk)[i - Len(history.written)]
    <3>1. ASSUME NEW u \in Seq(Kinds), NEW v \in Seq(Kinds)
          PROVE  /\ Len(u \o v) = Len(u) + Len(v)
                 /\ \A i \in 1..(Len(u) + Len(v)) :
                       (u \o v)[i] = IF i <= Len(u) THEN u[i] ELSE v[i - Len(u)]
      BY ConcatProperties
    <3>2. history.written \in Seq(Kinds)
      BY Lengths
    <3>3. /\ Len(history.written \o ToWrite(writer.bulk)) =
                Len(history.written) + Len(ToWrite(writer.bulk))
          /\ \A i \in 1..(Len(history.written) + Len(ToWrite(writer.bulk))) :
                (history.written \o ToWrite(writer.bulk))[i] =
                    IF i <= Len(history.written) THEN history.written[i]
                    ELSE ToWrite(writer.bulk)[i - Len(history.written)]
      BY <2>1, <3>1, <3>2, Zenon
    <3>4. history'.written = history.written \o ToWrite(writer.bulk)
      BY <1>1
    <3>5. QED
      BY <3>3, <3>4, Zenon
  <2>3. NWritten' = NWritten + n
    BY <2>2 DEF NWritten
  <2> HIDE DEF n
  <2>4. n <= NBulk
    BY <1>3, <1>4
  <2>5. ASSUME NEW i \in 1..(NWritten + n)
        PROVE  history'.written[i] = PacketAt(i)
    <3>1. CASE i <= NWritten
      BY <1>3, <1>4, <2>2, <3>1 DEF NWritten, PacketAt
    <3>2. CASE ~(i <= NWritten)
      <4>1. i - NWritten \in 1..n /\ i <= NWritten + NBulk
        BY <1>3, <1>4, <2>4, <3>2
      <4>2. history'.written[i] = ToWrite(writer.bulk)[i - NWritten]
        BY <2>2, <3>2 DEF NWritten
      <4>3. QED
        BY <1>4, <3>2, <4>1, <4>2 DEF PacketAt
    <3>3. QED
      BY <3>1, <3>2
  <2>6. QED
    BY <2>3, <2>5
<1>6. \A i \in 1..(NWritten + n) : PacketAt(i) # Stop
  <2>1. \A i \in 1..NWritten : history.written[i] # Stop
    BY Lengths
  <2> HIDE DEF n
  <2>2. ASSUME NEW i \in 1..(NWritten + n)
        PROVE  PacketAt(i) # Stop
    <3>1. CASE i <= NWritten
      BY <1>3, <2>1, <3>1 DEF PacketAt
    <3>2. CASE ~(i <= NWritten)
      <4>1. i - NWritten \in 1..n /\ i <= NWritten + NBulk
        BY <1>3, <1>4, <3>2
      <4>2. QED
        BY <1>4, <3>2, <4>1 DEF PacketAt
    <3>3. QED
      BY <3>1, <3>2
  <2>3. QED
    BY <2>2
<1> HIDE DEF n
<1>7. NWritten + n <= NQueued
  <2>1. SUFFICES ASSUME NQueued < NWritten + n PROVE FALSE
    BY <1>3, <1>4
  <2>2. NQueued < Total
    BY <1>3, <1>4, <2>1
  <2>3. PICK j \in 1..NQueued : history.queued[j] = Stop
    BY <1>2, <2>2 DEF InOrder, Contains, NQueued
  <2>4. j \in 1..(NWritten + n) /\ PacketAt(j) = Stop
    BY <1>2, <1>3, <1>4, <2>1, <2>3 DEF InOrder
  <2>5. QED
    BY <1>6, <2>4
<1>8. WrittenIsPrefix'
  <2>1. \A i \in 1..(NWritten + n) : history.queued[i] = PacketAt(i)
    BY <1>2, <1>3, <1>4, <1>7 DEF InOrder
  <2>2. QED
    BY <1>1, <1>3, <1>5, <1>7, <2>1 DEF WrittenIsPrefix
<1>9. StopIsLast'
  BY <1>1, <1>3 DEF FlushInv, StopIsLast
<1>10. CASE Contains(writer.bulk, Stop)
  <2>1. writer'.at = "done"
    BY <1>1, <1>10 DEF AfterWrite, Ending
  <2>2. NWritten + n + 1 \in 1..Total /\ \A i \in {NWritten + n + 1} : PacketAt(i) = Stop
    <3>1. NWritten + n + 1 \in 1..Total
      BY <1>3, <1>4, <1>10
    <3>2. ASSUME NEW i \in {NWritten + n + 1}
          PROVE  PacketAt(i) = Stop
      <4>1. n + 1 \in 1..NBulk /\ writer.bulk[n + 1] = Stop
        BY <1>4, <1>10
      <4>2. ~(i <= NWritten) /\ i <= NWritten + NBulk /\ i - NWritten = n + 1
        BY <1>3, <1>4, <4>1
      <4>3. QED
        BY <4>1, <4>2 DEF PacketAt
    <3>3. QED
      BY <3>1, <3>2
  <2>3. NQueued # NWritten + n
    <3>1. SUFFICES ASSUME NQueued = NWritten + n PROVE FALSE
      OBVIOUS
    <3>2. NQueued < Total
      BY <1>3, <1>4, <2>2, <3>1
    <3>3. PICK j \in 1..NQueued : history.queued[j] = Stop
      BY <1>2, <3>2 DEF InOrder, Contains, NQueued
    <3>4. QED
      BY <1>2, <1>6, <3>1, <3>3 DEF InOrder
  <2>4. NWritten + n + 1 \in 1..NQueued
    BY <1>3, <1>4, <1>7, <2>3
  <2>5. history.queued[NWritten + n + 1] = Stop /\ NQueued = NWritten + n + 1
    BY <1>2, <2>2, <2>4 DEF InOrder, FlushInv, StopIsLast
  <2>6. EndsAtStop'
    BY <1>1, <1>3, <1>5, <2>5 DEF EndsAtStop
  <2>7. QED
    BY <1>1, <1>2, <1>8, <1>9, <2>1, <2>6 DEF FlushInv, Writes
<1>11. CASE ~Contains(writer.bulk, Stop)
  <2>1. writer'.at = "take" /\ n = NBulk
    BY <1>1, <1>4, <1>11 DEF AfterWrite, Ending
  <2>2. Total' = Total
    <3>1. Total' = NWritten' + NBulk' + Len(queue')
      BY DEF Total
    <3>2. QED
      BY <1>1, <1>3, <1>5, <2>1, <3>1
  <2>3. ASSUME NEW i \in 1..Total
        PROVE  PacketAt(i)' = PacketAt(i)
    <3>1. CASE i <= NWritten + NBulk
      <4>1. i <= NWritten' /\ i \in 1..NWritten'
        BY <1>3, <1>5, <2>1, <3>1
      <4>2. PacketAt(i)' = history'.written[i]
        BY <4>1 DEF PacketAt
      <4>3. QED
        BY <1>5, <4>1, <4>2
    <3>2. CASE ~(i <= NWritten + NBulk)
      <4>1. /\ ~(i <= NWritten) /\ ~(i <= NWritten') /\ ~(i <= NWritten' + NBulk')
            /\ i - NWritten' - NBulk' = i - NWritten - NBulk
        BY <1>3, <1>5, <2>1, <3>2
      <4>2. QED
        BY <1>1, <3>2, <4>1 DEF PacketAt
    <3>3. QED
      BY <3>1, <3>2
  <2>4. InOrder'
    BY <1>1, <1>2, <1>3, <2>2, <2>3 DEF InOrder
  <2>5. QED
    BY <1>1, <1>2, <1>8, <1>9, <2>1, <2>4 DEF FlushInv
<1>12. QED
  BY <1>10, <1>11

(* A step that leaves the packets alone, and one that moves no packet.     *)
LEMMA SameKeepsOrder ==
  ASSUME FlushInv, queue' = queue, writer' = writer, history'.queued = history.queued,
         history'.written = history.written, history'.failed = history.failed
  PROVE  FlushInv'
<1>1. /\ NWritten' = NWritten /\ NBulk' = NBulk /\ NQueued' = NQueued
  BY DEF NWritten, NBulk, NQueued
<1>2. Total' = Total /\ \A i \in 1..NQueued : PacketAt(i)' = PacketAt(i)
  BY <1>1 DEF Total, PacketAt
<1>3. QED
  BY <1>1, <1>2 DEF FlushInv, Writes, StopIsLast, WrittenIsPrefix, InOrder, EndsAtStop

LEMMA FilledKeepsOrder ==
  ASSUME FlushInv, WriteFilled \/ WriteDone
  PROVE  FlushInv'
<1>1. /\ queue' = queue /\ history' = history
      /\ WriteFilled => writer.at = "fill" /\ writer' = [at |-> "write", bulk |-> writer.bulk]
      /\ WriteDone => writer.at = "leaving" /\ writer' = [at |-> "done", bulk |-> <<>>]
  BY DEF WriteFilled, WriteDone, WriterGoes
<1>2. NWritten' = NWritten /\ NQueued' = NQueued
  BY <1>1 DEF NWritten, NQueued
<1>3. CASE WriteFilled
  <2>1. NBulk' = NBulk /\ Total' = Total /\ \A i \in 1..NQueued : PacketAt(i)' = PacketAt(i)
    BY <1>1, <1>2, <1>3 DEF NBulk, Total, PacketAt
  <2>2. QED
    BY <1>1, <1>2, <1>3, <2>1 DEF FlushInv, Writes, StopIsLast, WrittenIsPrefix, InOrder
<1>4. CASE WriteDone
  BY <1>1, <1>2, <1>4 DEF FlushInv, Writes, StopIsLast, WrittenIsPrefix
<1>5. QED
  BY <1>3, <1>4

(* The stop of a bulk that cannot be written ends the loop as well.        *)
LEMMA ErrorKeepsOrder ==
  ASSUME TypeInv, FlushInv, WriteError
  PROVE  FlushInv'
<1>1. /\ writer.at = "write" /\ writer'.at \in {"leaving", "done"} /\ history'.failed
      /\ history'.written = history.written /\ history'.queued = history.queued
  BY DEF WriteError, WriterGoes, TypeInv, History
<1>2. NWritten' = NWritten /\ NQueued' = NQueued
  BY <1>1 DEF NWritten, NQueued
<1>3. QED
  BY <1>1, <1>2 DEF FlushInv, Writes, StopIsLast, WrittenIsPrefix

(* The stop is queued; the other steps of SetDisconnected queue nothing.   *)
LEMMA SetDisconnectedKeepsOrder ==
  ASSUME TypeInv, FlushInv, NEW w \in Callers, SetDisconnected(w)
  PROVE  FlushInv'
<1>1. CASE DiscStop(w)
  BY <1>1, SendKeepsOrder DEF DiscStop, DiscGoes, Kinds
<1>2. CASE DiscTestWill(w) \/ DiscPublishWill(w) \/ DiscRelease(w)
  <2>1. /\ queue' = queue /\ writer' = writer /\ history'.queued = history.queued
        /\ history'.written = history.written /\ history'.failed = history.failed
    BY <1>2 DEF DiscTestWill, DiscPublishWill, DiscRelease, DiscGoes, TypeInv, History
  <2>2. QED
    BY <2>1, SameKeepsOrder
<1>3. QED
  BY <1>1, <1>2 DEF SetDisconnected

LEMMA FlushStays == TypeInv /\ FlushInv /\ [Next]_vars => FlushInv'
<1> SUFFICES ASSUME TypeInv, FlushInv, [Next]_vars PROVE FlushInv'
  OBVIOUS
<1>1. CASE UNCHANGED vars
  BY <1>1, SameKeepsOrder DEF vars, loops
<1>2. CASE ReadLoop
  <2>1. CASE ReadSend
    <3>1. reader.send \in Kinds
      BY <2>1 DEF ReadSend, ReaderGoes, TypeInv, LoopsOK, Reader, Kinds
    <3>2. QED
      BY <2>1, <3>1, SendKeepsOrder DEF ReadSend, ReaderGoes
  <2>2. CASE ~ReadSend
    <3>1. UNCHANGED <<queue, writer, history>>
      BY <1>2, <2>2 DEF ReadLoop, ReadHead, ReadArm, ReadCheck, ReadLeave, ReadDone, ReaderGoes
    <3>2. QED
      BY <3>1, SameKeepsOrder
  <2>3. QED
    BY <2>1, <2>2
<1>3. CASE ReadPacket \/ ReadTimeout
  <2>1. UNCHANGED <<queue, writer, history>>
    BY <1>3 DEF ReadPacket, ReadTimeout, ReadUnexpected, ReadConnect, ReadPing, ReadSubscribe,
       ReadPublish, ReadDisconnect, ReadEOF, Receives, ReaderGoes
  <2>2. QED
    BY <2>1, SameKeepsOrder
<1>4. CASE WriteLoop
  <2>1. CASE WriteFilled \/ WriteDone
    BY <2>1, FilledKeepsOrder
  <2>2. QED
    BY <1>4, <2>1, TakeKeepsOrder, WriteKeepsOrder DEF WriteLoop
<1>5. ASSUME NEW p \in Producers, ProducerCheck(p) \/ ProducerSend(p)
      PROVE  FlushInv'
  BY <1>5, SameKeepsOrder, SendKeepsOrder DEF ProducerCheck, ProducerSend, Kinds
<1>6. CASE Drain \/ ServeReturns
  BY <1>6, SameKeepsOrder DEF Drain, ServeReturns, loops
<1>7. QED
  BY <1>1, <1>2, <1>3, <1>4, <1>5, <1>6, SetDisconnectedKeepsOrder, ErrorKeepsOrder DEF Next

(* A sequence that agrees with the beginning of another is its prefix.     *)
LEMMA PrefixByElements ==
  ASSUME NEW S, NEW s \in Seq(S), NEW t \in Seq(S),
         Len(s) <= Len(t), \A i \in 1..Len(s) : t[i] = s[i]
  PROVE  IsPrefix(s, t)
<1> DEFINE n == Len(s)
           a == SubSeq(s, 1, n)
           b == SubSeq(t, 1, n)
<1>1. n \in Nat /\ Len(t) \in Nat
  BY LenProperties
<1>2. /\ \A i \in 1..n : s[i] \in S
      /\ \A i \in 1..n : t[i] \in S
  BY ElementOfSeq
<1>3. /\ a \in Seq(S) /\ Len(a) = IF 1 <= n THEN n - 1 + 1 ELSE 0
      /\ \A i \in 1..(n - 1 + 1) : a[i] = s[1 + i - 1]
  BY <1>1, <1>2, SubSeqProperties
<1>4. /\ b \in Seq(S) /\ Len(b) = IF 1 <= n THEN n - 1 + 1 ELSE 0
      /\ \A i \in 1..(n - 1 + 1) : b[i] = t[1 + i - 1]
  BY <1>1, <1>2, SubSeqProperties
<1> HIDE DEF n, a, b
<1>5. Len(a) = n /\ Len(b) = n /\ \A i \in 1..n : a[i] = s[i] /\ b[i] = t[i]
  BY <1>1, <1>3, <1>4
<1>6. \A i \in 1..Len(a) : a[i] = b[i]
  BY <1>5 DEF n
<1>7. a = b
  BY <1>3, <1>4, <1>5, <1>6, SeqEqual
<1>8. QED
  BY <1>7 DEF n, a, b, IsPrefix

(* What the invariant says of what has been written.                       *)
LEMMA FlushedAsQueued ==
  ASSUME TypeInv, FlushInv
  PROVE  FlushedInOrder
<1>1. /\ history.queued \in Seq(Kinds) /\ history.written \in Seq(Kinds)
      /\ NWritten \in Nat /\ NQueued \in Nat
  BY Lengths
<1>2. IsPrefix(history.written, history.queued)
  BY <1>1, PrefixByElements DEF FlushInv, WrittenIsPrefix, NWritten, NQueued
<1>3. ASSUME writer.at = "done", ~history.failed
      PROVE  Append(history.written, Stop) = history.queued
  <2> DEFINE a == Append(history.written, Stop)
  <2>1. NQueued = NWritten + 1 /\ history.queued[NQueued] = Stop
    BY <1>3 DEF FlushInv, EndsAtStop
  <2>2. Stop \in Kinds
    BY DEF Kinds
  <2>3. /\ a \in Seq(Kinds) /\ Len(a) = NWritten + 1 /\ a[NWritten + 1] = Stop
        /\ \A i \in 1..NWritten : a[i] = history.written[i]
    BY <1>1, <2>2, AppendProperties DEF NWritten
  <2>4. \A i \in 1..NWritten : history.queued[i] = history.written[i]
    BY DEF FlushInv, WrittenIsPrefix
  <2> HIDE DEF a
  <2>5. Len(a) = Len(history.queued) /\ \A i \in 1..Len(a) : a[i] = history.queued[i]
    BY <1>1, <2>1, <2>3, <2>4 DEF NQueued
  <2>6. a = history.queued
    BY <1>1, <2>3, <2>5, SeqEqual
  <2>7. QED
    BY <2>6 DEF a
<1>4. QED
  BY <1>2, <1>3 DEF FlushedInOrder

(* What a client has been written is a beginning of what was queued for    *)
(* it, in that order; when its write loop has ended without a write error  *)
(* it has been written all of it up to the stop.                           *)
THEOREM WrittenInOrder == Spec => []FlushedInOrder
<1>1. Init => FlushInv
  <2> SUFFICES ASSUME Init PROVE FlushInv
    OBVIOUS
  <2>1. /\ history.queued = <<>> /\ history.written = <<>> /\ ~history.failed
        /\ queue = <<>> /\ writer.bulk = <<>> /\ writer.at = "take"
    BY DEF Init
  <2>2. NWritten = 0 /\ NQueued = 0 /\ NBulk = 0 /\ Total = 0
    BY <2>1 DEF NWritten, NQueued, NBulk, Total
  <2>3. QED
    BY <2>1, <2>2 DEF FlushInv, StopIsLast, WrittenIsPrefix, Writes, InOrder
<1>2. TypeInv /\ FlushInv => FlushedInOrder
  BY FlushedAsQueued
<1>3. QED
  BY <1>1, <1>2, Typed, FlushStays, PTL DEF Spec
=============================================================================
