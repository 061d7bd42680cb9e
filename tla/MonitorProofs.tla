--------------------------- MODULE MonitorProofs ---------------------------
(***************************************************************************)
(* Machine-checked proofs about the live monitor: its type invariant, the  *)
(* safety invariants of Monitor.tla, from the buffer to the chain of the   *)
(* device reports, and that it implements AlertDelivery.                   *)
(***************************************************************************)
EXTENDS Monitor, SequenceTheorems, TLAPS

USE DEF osVars, mainVars, sourceVars, bufferVars, deviceVars, outputVars, workerVars,
        AnnouncePc, LogPc, WebhookPc

-----------------------------------------------------------------------------
(* What the helpers of the model do to the types.                          *)

LEMMA AtMostType ==
  ASSUME NEW n \in Nat, NEW bound \in Nat
  PROVE  AtMost(n, bound) \in 0 .. bound
BY DEF AtMost

LEMMA ElapseType ==
  ASSUME TypeOK, NEW seconds \in Nat, Elapse(seconds)
  PROVE  /\ sinceFlush' \in 0 .. Window
         /\ sinceDevices' \in 0 .. DeviceInterval
         /\ held' \in 0 .. Window
<1>1. /\ sinceFlush + seconds \in Nat
      /\ sinceDevices + seconds \in Nat
      /\ held + seconds \in Nat
  BY TimingAssumption DEF TypeOK
<1>2. Window \in Nat /\ DeviceInterval \in Nat
  BY TimingAssumption
<1>3. /\ AtMost(sinceFlush + seconds, Window) \in 0 .. Window
      /\ AtMost(sinceDevices + seconds, DeviceInterval) \in 0 .. DeviceInterval
      /\ AtMost(held + seconds, Window) \in 0 .. Window
  BY <1>1, <1>2, AtMostType
<1>4. 0 \in 0 .. Window
  BY <1>2
<1>5. QED
  BY <1>3, <1>4 DEF Elapse

LEMMA PushType ==
  ASSUME TypeOK, NEW d \in Detection, Push(d)
  PROVE  /\ pending' \in Seq(Detection)
         /\ detected' \in Seq(Detection)
         /\ sinceFlush' = sinceFlush
         /\ held' = held
BY AppendProperties DEF TypeOK, Push

(* A pushed detection is the last, and every earlier one stays in place.   *)
LEMMA PushAt ==
  ASSUME TypeOK, NEW d \in Detection, Push(d)
  PROVE  /\ Len(detected) \in Nat
         /\ DOMAIN detected = 1 .. Len(detected)
         /\ DOMAIN detected' = 1 .. Len(detected) + 1
         /\ detected'[Len(detected) + 1] = d
         /\ \A i \in DOMAIN detected : detected'[i] = detected[i]
<1>1. detected \in Seq(Detection) /\ detected' = Append(detected, d)
  BY DEF TypeOK, Push
<1> HIDE DEF Detection
<1>2. Len(detected) \in Nat /\ DOMAIN detected = 1 .. Len(detected)
  BY <1>1, LenProperties
<1>3. Len(detected') = Len(detected) + 1 /\ detected' \in Seq(Detection)
  BY <1>1, AppendProperties
<1>4. DOMAIN detected' = 1 .. Len(detected) + 1
  BY <1>3, LenProperties
<1>5. detected'[Len(detected) + 1] = d /\ \A i \in 1 .. Len(detected) : detected'[i] = detected[i]
  BY <1>1, AppendProperties
<1>6. QED
  BY <1>2, <1>4, <1>5

LEMMA TakeType ==
  ASSUME TypeOK, Take
  PROVE  /\ pending' \in Seq(Detection)
         /\ outbox' \in Seq(Detection)
         /\ detected' = detected
         /\ sinceFlush' = 0
         /\ held' = 0
BY EmptySeq DEF TypeOK, Take

LEMMA GivenType ==
  ASSUME TypeOK, NEW c \in Channel
  PROVE  /\ Given(c) \in [Channel -> Seq(Detection)]
         /\ Given(c)[c] = received[c] \o outbox
         /\ \A k \in Channel \ {c} : Given(c)[k] = received[k]
<1>1. received[c] \o outbox \in Seq(Detection)
  BY ConcatProperties DEF TypeOK
<1>2. QED
  BY <1>1 DEF TypeOK, Given

-----------------------------------------------------------------------------
LEMMA TypeCorrect == Spec => []TypeOK
<1> USE TimingAssumption, EnvironmentAssumption
<1>1. Init => TypeOK
  <2> SUFFICES ASSUME Init PROVE TypeOK
    OBVIOUS
  <2>1. \A S : <<>> \in Seq(S)
    BY EmptySeq
  <2>2. received \in [Channel -> Seq(Detection)]
    BY <2>1 DEF Init
  <2>3. deviceCount \in Counts
    BY DEF Init, Counts
  <2>4. /\ logged \in 0 .. MaxRecords /\ noticed \in 0 .. MaxNotices
        /\ changes \in 0 .. MaxChanges /\ samples \in 0 .. Depth
        /\ sinceFlush \in 0 .. Window /\ sinceDevices \in 0 .. DeviceInterval
        /\ held \in 0 .. Window
    BY DEF Init
  <2>5. /\ eventQueue \in Seq(1 .. MaxRecords) /\ dumpQueue \in Seq(Notice)
        /\ pending \in Seq(Detection) /\ outbox \in Seq(Detection)
        /\ detected \in Seq(Detection)
    BY <2>1 DEF Init
  <2>6. QED
    BY <2>2, <2>3, <2>4, <2>5 DEF Init, TypeOK
<1>2. TypeOK /\ [Next]_vars => TypeOK'
  <2> SUFFICES ASSUME TypeOK, [Next]_vars PROVE TypeOK'
    OBVIOUS
  <2> USE DEF TypeOK, Windows, MainThread
  <2>1. CASE RecordLogged
    <3>1. logged' \in 1 .. MaxRecords
      BY <2>1 DEF RecordLogged
    <3>2. QED
      BY <2>1, <3>1, AppendProperties DEF RecordLogged
  <2>2. CASE DumpNotified
    <3>1. noticed' \in 1 .. MaxNotices
      BY <2>2 DEF DumpNotified
    <3>2. \A kind \in {"dump", "other", "error"} : [kind |-> kind, id |-> noticed'] \in Notice
      BY <3>1 DEF Notice
    <3>3. QED
      <4>1. PICK kind \in {"dump", "other", "error"} :
              dumpQueue' = Append(dumpQueue, [kind |-> kind, id |-> noticed'])
        BY <2>2 DEF DumpNotified
      <4>2. dumpQueue' \in Seq(Notice)
        BY <3>2, <4>1, AppendProperties
      <4>3. QED
        BY <2>2, <3>1, <4>2 DEF DumpNotified
  <2>3. CASE DevicesChange
    BY <2>3 DEF DevicesChange
  <2>4. CASE RequestShutdown
    BY <2>4 DEF RequestShutdown
  <2>5. CASE SpawnWorker
    BY <2>5 DEF SpawnWorker
  <2>6. CASE LeavePump
    BY <2>6 DEF LeavePump
  <2>7. CASE JoinWorker
    BY <2>7 DEF JoinWorker
  <2>8. CASE OpenSources
    BY <2>8 DEF OpenSources, CountDevices, Counts
  <2>9. CASE BeginTick
    BY <2>9 DEF BeginTick, AtMost
  <2>10. CASE PollSignalled
    <3>1. PICK seconds \in 0 .. 1 : Elapse(seconds)
      BY <2>10 DEF PollSignalled
    <3>2. seconds \in Nat
      OBVIOUS
    <3>3. QED
      BY <2>10, <3>1, <3>2, ElapseType DEF PollSignalled
  <2>11. CASE PollTimesOut
    BY <2>11, ElapseType DEF PollTimesOut
  <2>12. CASE DrainRecord
    <3>1. Head(eventQueue) \in 1 .. MaxRecords /\ Tail(eventQueue) \in Seq(1 .. MaxRecords)
      BY <2>12, HeadTailProperties DEF DrainRecord
    <3>2. [kind |-> "event", id |-> Head(eventQueue)] \in Detection
      BY <3>1 DEF Detection
    <3>3. CASE Push([kind |-> "event", id |-> Head(eventQueue)])
      BY <2>12, <3>1, <3>2, <3>3, PushType DEF DrainRecord
    <3>4. CASE UNCHANGED bufferVars
      BY <2>12, <3>1, <3>4 DEF DrainRecord
    <3>5. QED
      BY <2>12, <3>3, <3>4 DEF DrainRecord
  <2>13. CASE DrainEnds
    BY <2>13 DEF DrainEnds
  <2>14. CASE TakeNotice
    <3>1. Head(dumpQueue) \in Notice /\ Tail(dumpQueue) \in Seq(Notice)
      BY <2>14, HeadTailProperties DEF TakeNotice
    <3>2. CASE Head(dumpQueue).kind = "dump"
      <4>1. Head(dumpQueue) \in Detection
        BY <3>1, <3>2 DEF Notice, Detection
      <4>2. QED
        BY <2>14, <3>1, <3>2, <4>1, PushType DEF TakeNotice
    <3>3. CASE Head(dumpQueue).kind # "dump"
      BY <2>14, <3>1, <3>3 DEF TakeNotice
    <3>4. QED
      BY <3>2, <3>3
  <2>15. CASE DumpsEmpty
    BY <2>15 DEF DumpsEmpty
  <2>16. CASE CheckDevices
    <3>1. CASE sinceDevices < DeviceInterval
      BY <2>16, <3>1 DEF CheckDevices
    <3>2. CASE ~(sinceDevices < DeviceInterval)
      <4>1. PICK count \in Counts :
              /\ CountDevices(count)
              /\ sinceDevices' = 0
              /\ deviceCount' = count
              /\ IF count = deviceCount
                 THEN UNCHANGED bufferVars
                 ELSE Push([kind |-> "device", present |-> count, previous |-> deviceCount])
        BY <2>16, <3>2 DEF CheckDevices
      <4>2. [kind |-> "device", present |-> count, previous |-> deviceCount] \in Detection
        BY DEF Detection
      <4>3. changes' \in 0 .. MaxChanges
        BY <4>1 DEF CountDevices
      <4>4. CASE count = deviceCount
        BY <2>16, <4>1, <4>3, <4>4 DEF CheckDevices
      <4>5. CASE count # deviceCount
        BY <2>16, <4>1, <4>2, <4>3, <4>5, PushType DEF CheckDevices
      <4>6. QED
        BY <4>4, <4>5
    <3>3. QED
      BY <3>1, <3>2
  <2>17. CASE Flush
    BY <2>17, TakeType DEF Flush
  <2>18. CASE Hold
    BY <2>18 DEF Hold
  <2>19. CASE FinalFlush
    BY <2>19, TakeType DEF FinalFlush
  <2>20. CASE Announce
    <3>1. Given("console") \in [Channel -> Seq(Detection)]
      BY GivenType DEF Channel
    <3>2. received["toast"] \o outbox \in Seq(Detection)
      BY ConcatProperties DEF Channel
    <3>3. received' \in [Channel -> Seq(Detection)]
      <4>1. Given("console")["toast"] = received["toast"]
        BY GivenType DEF Channel
      <4>2. QED
        BY <2>20, <3>1, <3>2, <4>1 DEF Announce
    <3>4. failed' \in SUBSET Channel
      BY <2>20 DEF Announce, Channel
    <3>5. QED
      BY <2>20, <3>3, <3>4 DEF Announce
  <2>21. CASE ConsoleClosed
    BY <2>21 DEF ConsoleClosed
  <2>22. CASE WriteLog
    <3>1. Given("log") \in [Channel -> Seq(Detection)]
      BY GivenType DEF Channel
    <3>2. received' \in [Channel -> Seq(Detection)] /\ failed' \in SUBSET Channel
      BY <2>22, <3>1 DEF WriteLog, Channel
    <3>3. QED
      BY <2>22, <3>2 DEF WriteLog
  <2>23. CASE NoWebhook
    BY <2>23, EmptySeq DEF NoWebhook, EndDelivery
  <2>24. CASE WebhookAnswers
    <3>1. PICK seconds \in 0 .. MaxPost : Elapse(seconds)
      BY <2>24 DEF WebhookAnswers
    <3>2. sinceFlush' \in 0 .. Window /\ sinceDevices' \in 0 .. DeviceInterval
          /\ held' \in 0 .. Window
      BY <3>1, ElapseType, TimingAssumption
    <3>3. received' \in [Channel -> Seq(Detection)] /\ failed' \in SUBSET Channel
      BY <2>24, GivenType DEF WebhookAnswers, Channel
    <3>4. QED
      BY <2>24, <3>2, <3>3, EmptySeq DEF WebhookAnswers, EndDelivery
  <2>25. CASE UNCHANGED vars
    BY <2>25 DEF vars
  <2>26. QED
    BY <2>1, <2>2, <2>3, <2>4, <2>5, <2>6, <2>7, <2>8, <2>9, <2>10, <2>11, <2>12, <2>13,
       <2>14, <2>15, <2>16, <2>17, <2>18, <2>19, <2>20, <2>21, <2>22, <2>23, <2>24, <2>25
       DEF Next, Worker, Stopped
<1>3. QED
  BY <1>1, <1>2, PTL DEF Spec

-----------------------------------------------------------------------------
(* The safety invariants of the worker's buffer.                           *)

(* What makes them inductive: between a flush and the end of the delivery  *)
(* nothing is pushed, so the buffer is empty there; a batch on its way out *)
(* is not empty; and nothing in the buffer is older than the last flush.   *)
DeliveryPc == AnnouncePc \cup LogPc \cup WebhookPc
EmptyWhileDelivering ==
  pc \in DeliveryPc \cup {"unborn", "open", "panicked", "done"} => pending = <<>>
BatchNotEmpty == pc \in AnnouncePc => outbox # <<>>
NotOlderThanFlush == held <= sinceFlush

BufferInv ==
  /\ NothingLost
  /\ EmptyWhileDelivering
  /\ BatchNotEmpty
  /\ NotOlderThanFlush
  /\ HeldBriefly

(* Pushing at the end commutes with what stands before the buffer.         *)
LEMMA ConcatAppend ==
  ASSUME NEW S, NEW s \in Seq(S), NEW t \in Seq(S), NEW e \in S
  PROVE  s \o Append(t, e) = Append(s \o t, e)
<1>1. <<e>> \in Seq(S)
  OBVIOUS
<1>2. Append(t, e) = t \o <<e>>
  BY AppendIsConcat
<1>3. s \o (t \o <<e>>) = (s \o t) \o <<e>>
  BY <1>1, ConcatAssociative
<1>4. s \o t \in Seq(S)
  BY ConcatProperties
<1>5. Append(s \o t, e) = (s \o t) \o <<e>>
  BY <1>4, AppendIsConcat
<1>6. QED
  BY <1>2, <1>3, <1>5

(* One detection more, anywhere in the loop where the buffer is open.      *)
LEMMA PushKeeps ==
  ASSUME TypeOK, BufferInv, NEW d \in Detection, Push(d),
         pc \in {"drain", "dumps", "devices"}, pc' \in {"drain", "dumps", "devices", "flush"},
         UNCHANGED outputVars
  PROVE  BufferInv'
<1>1. Unprinted = <<>> /\ Unprinted' = <<>>
  BY DEF Unprinted
<1> DEFINE printed == received["console"] \o <<>>
<1>2. printed \in Seq(Detection)
  BY ConcatEmptySeq DEF TypeOK, Channel
<1>3. detected' = printed \o pending'
  <2>1. detected = printed \o pending
    BY <1>1 DEF BufferInv, NothingLost
  <2> HIDE DEF printed
  <2>2. pending \in Seq(Detection)
    BY DEF TypeOK
  <2>3. pending' = Append(pending, d) /\ detected' = Append(detected, d)
    BY DEF Push
  <2>4. printed \o Append(pending, d) = Append(printed \o pending, d)
    BY <1>2, <2>2, ConcatAppend
  <2>5. QED
    BY <2>1, <2>3, <2>4
<1>4. NothingLost'
  BY <1>1, <1>3 DEF NothingLost
<1>5. NotOlderThanFlush'
  <2>1. held' = held /\ sinceFlush' = sinceFlush
    BY DEF Push
  <2>2. QED
    BY <2>1 DEF BufferInv, NotOlderThanFlush
<1>6. (EmptyWhileDelivering /\ BatchNotEmpty /\ HeldBriefly)'
  BY DEF EmptyWhileDelivering, BatchNotEmpty, HeldBriefly, DeliveryPc
<1>7. QED
  BY <1>4, <1>5, <1>6 DEF BufferInv

(* Time passing keeps the age of the buffer below the time since the last  *)
(* flush.                                                                  *)
LEMMA ElapseKeepsAge ==
  ASSUME TypeOK, NotOlderThanFlush, NEW seconds \in Nat, Elapse(seconds),
         UNCHANGED pending
  PROVE  NotOlderThanFlush'
BY TimingAssumption DEF TypeOK, NotOlderThanFlush, Elapse, AtMost

(* A flush moves the whole buffer into the batch.                          *)
LEMMA TakeKeeps ==
  ASSUME TypeOK, BufferInv, Take, pc \in {"flush", "loop"}, pc' \in AnnouncePc,
         pending # <<>>, UNCHANGED received
  PROVE  BufferInv'
<1>1. Unprinted = <<>> /\ Unprinted' = pending
  BY DEF Unprinted, Take
<1>2. detected' = (received["console"] \o pending) \o <<>>
  <2>1. received["console"] \in Seq(Detection) /\ pending \in Seq(Detection)
    BY DEF TypeOK, Channel
  <2>2. received["console"] \o <<>> = received["console"]
    BY <2>1, ConcatEmptySeq
  <2>3. (received["console"] \o pending) \o <<>> = received["console"] \o pending
    BY <2>1, ConcatProperties, ConcatEmptySeq
  <2>4. QED
    BY <1>1, <2>2, <2>3 DEF BufferInv, NothingLost, Take
<1>3. NothingLost'
  BY <1>1, <1>2 DEF NothingLost, Take
<1>4. (EmptyWhileDelivering /\ BatchNotEmpty /\ NotOlderThanFlush /\ HeldBriefly)'
  BY DEF EmptyWhileDelivering, BatchNotEmpty, NotOlderThanFlush, HeldBriefly, Take
<1>5. QED
  BY <1>3, <1>4 DEF BufferInv

(* Printing the batch adds it to what the console has been given.          *)
LEMMA AnnounceKeeps ==
  ASSUME TypeOK, BufferInv, Announce
  PROVE  BufferInv' /\ received'["console"] = detected
<1>1. pending = <<>> /\ pending' = <<>> /\ detected' = detected
  BY DEF Announce, BufferInv, EmptyWhileDelivering, DeliveryPc
<1>2. received'["console"] = received["console"] \o outbox
  <2>1. /\ Given("console") \in [Channel -> Seq(Detection)]
        /\ Given("console")["console"] = received["console"] \o outbox
    BY GivenType DEF Channel
  <2>2. QED
    BY <2>1 DEF Announce, Channel
<1>3. /\ received["console"] \in Seq(Detection)
      /\ outbox \in Seq(Detection)
      /\ received["console"] \o outbox \in Seq(Detection)
  BY ConcatProperties DEF TypeOK, Channel
<1>4. detected = received["console"] \o outbox
  <2>1. detected = (received["console"] \o outbox) \o <<>>
    BY <1>1 DEF BufferInv, NothingLost, Unprinted, Announce
  <2>2. QED
    BY <1>3, <2>1, ConcatEmptySeq
<1>5. Unprinted' = <<>>
  BY DEF Unprinted, Announce
<1>6. NothingLost'
  BY <1>1, <1>2, <1>3, <1>4, <1>5, ConcatEmptySeq DEF NothingLost
<1>7. (EmptyWhileDelivering /\ BatchNotEmpty /\ NotOlderThanFlush /\ HeldBriefly)'
  BY <1>1 DEF EmptyWhileDelivering, BatchNotEmpty, NotOlderThanFlush, HeldBriefly, DeliveryPc,
     Announce, BufferInv
<1>8. QED
  BY <1>2, <1>4, <1>6, <1>7 DEF BufferInv

(* A step that leaves the console and the buffer alone, and the batch too  *)
(* unless it is already printed.                                           *)
LEMMA QuietStepKeeps ==
  ASSUME TypeOK, BufferInv,
         UNCHANGED <<pending, detected>>, received'["console"] = received["console"],
         Unprinted' = Unprinted, EmptyWhileDelivering', BatchNotEmpty', NotOlderThanFlush',
         HeldBriefly'
  PROVE  BufferInv'
BY DEF BufferInv, NothingLost

LEMMA BufferInvStep == TypeOK /\ BufferInv /\ [Next]_vars => BufferInv'
<1> SUFFICES ASSUME TypeOK, BufferInv, [Next]_vars PROVE BufferInv'
  OBVIOUS
<1> USE DEF Windows, MainThread
<1>1. CASE UNCHANGED workerVars
  <2>1. UNCHANGED <<pc, pending, outbox, received, detected, held, sinceFlush>>
    BY <1>1
  <2>2. QED
    BY <2>1 DEF BufferInv, NothingLost, Unprinted, EmptyWhileDelivering, BatchNotEmpty,
       NotOlderThanFlush, HeldBriefly
<1>2. CASE SpawnWorker \/ OpenSources \/ BeginTick \/ DrainEnds \/ DumpsEmpty
  <2>1. /\ UNCHANGED <<bufferVars, outputVars>>
        /\ <<pc, pc'>> \in {<<"unborn", "open">>, <<"open", "loop">>, <<"loop", "poll">>,
                            <<"drain", "dumps">>, <<"dumps", "devices">>}
    <3>1. CASE SpawnWorker
      <4>1. pc = "unborn" /\ pc' = "open"
        BY <3>1 DEF SpawnWorker, TypeOK
      <4>2. UNCHANGED bufferVars /\ UNCHANGED outputVars
        BY <3>1 DEF SpawnWorker
      <4>3. QED
        BY <4>1, <4>2
    <3>2. CASE OpenSources
      <4>1. pc = "open" /\ pc' = "loop"
        BY <3>2 DEF OpenSources
      <4>2. UNCHANGED bufferVars /\ UNCHANGED outputVars
        BY <3>2 DEF OpenSources
      <4>3. QED
        BY <4>1, <4>2
    <3>3. CASE BeginTick
      BY <3>3 DEF BeginTick
    <3>4. CASE DrainEnds \/ DumpsEmpty
      BY <3>4 DEF DrainEnds, DumpsEmpty
    <3>5. QED
      BY <1>2, <3>1, <3>2, <3>3, <3>4
  <2>2. Unprinted' = Unprinted
    BY <2>1 DEF Unprinted
  <2>3. (EmptyWhileDelivering /\ BatchNotEmpty /\ NotOlderThanFlush /\ HeldBriefly)'
    BY <2>1, EmptySeq DEF BufferInv, EmptyWhileDelivering, BatchNotEmpty, NotOlderThanFlush,
       HeldBriefly, DeliveryPc
  <2>4. QED
    BY <2>1, <2>2, <2>3, QuietStepKeeps
<1>3. CASE PollSignalled \/ PollTimesOut
  <2>1. /\ UNCHANGED <<pending, detected, outputVars>>
        /\ pc = "poll" /\ pc' \in {"drain", "dumps"}
        /\ \E seconds \in 0 .. 1 : Elapse(seconds)
    BY <1>3 DEF PollSignalled, PollTimesOut
  <2>2. NotOlderThanFlush'
    BY <2>1, ElapseKeepsAge DEF BufferInv
  <2>3. (EmptyWhileDelivering /\ BatchNotEmpty /\ HeldBriefly)' /\ Unprinted' = Unprinted
    BY <2>1 DEF EmptyWhileDelivering, BatchNotEmpty, HeldBriefly, DeliveryPc, Unprinted
  <2>4. QED
    BY <2>1, <2>2, <2>3, QuietStepKeeps
<1>4. CASE DrainRecord
  <2>1. Head(eventQueue) \in 1 .. MaxRecords
    BY <1>4, HeadTailProperties DEF DrainRecord, TypeOK
  <2>2. [kind |-> "event", id |-> Head(eventQueue)] \in Detection
    BY <2>1 DEF Detection
  <2>3. CASE Push([kind |-> "event", id |-> Head(eventQueue)])
    BY <1>4, <2>2, <2>3, PushKeeps DEF DrainRecord
  <2>4. CASE UNCHANGED bufferVars
    BY <1>4, <2>4 DEF DrainRecord, BufferInv, NothingLost, Unprinted, EmptyWhileDelivering,
       BatchNotEmpty, NotOlderThanFlush, HeldBriefly
  <2>5. QED
    BY <1>4, <2>3, <2>4 DEF DrainRecord
<1>5. CASE TakeNotice
  <2>1. CASE Head(dumpQueue).kind = "dump"
    <3>1. Head(dumpQueue) \in Notice
      BY <1>5, HeadTailProperties DEF TakeNotice, TypeOK
    <3>2. Head(dumpQueue) \in Detection
      BY <2>1, <3>1 DEF Notice, Detection
    <3>3. QED
      BY <1>5, <2>1, <3>2, PushKeeps DEF TakeNotice
  <2>2. CASE Head(dumpQueue).kind # "dump"
    <3>1. /\ UNCHANGED <<bufferVars, outputVars>>
          /\ pc = "dumps" /\ pc' \in {"dumps", "devices"}
      BY <1>5, <2>2 DEF TakeNotice
    <3>2. Unprinted' = Unprinted
      BY <3>1 DEF Unprinted
    <3>3. (EmptyWhileDelivering /\ BatchNotEmpty /\ NotOlderThanFlush /\ HeldBriefly)'
      BY <3>1 DEF BufferInv, EmptyWhileDelivering, BatchNotEmpty, NotOlderThanFlush,
         HeldBriefly, DeliveryPc
    <3>4. QED
      BY <3>1, <3>2, <3>3, QuietStepKeeps
  <2>3. QED
    BY <2>1, <2>2
<1>6. CASE CheckDevices
  <2>1. CASE UNCHANGED bufferVars
    <3>1. UNCHANGED outputVars /\ pc = "devices" /\ pc' = "flush"
      BY <1>6 DEF CheckDevices
    <3>2. Unprinted' = Unprinted
      BY <3>1 DEF Unprinted
    <3>3. (EmptyWhileDelivering /\ BatchNotEmpty /\ NotOlderThanFlush /\ HeldBriefly)'
      BY <2>1, <3>1 DEF BufferInv, EmptyWhileDelivering, BatchNotEmpty, NotOlderThanFlush,
         HeldBriefly, DeliveryPc
    <3>4. QED
      BY <2>1, <3>1, <3>2, <3>3, QuietStepKeeps
  <2>2. ASSUME NEW count \in Counts,
               Push([kind |-> "device", present |-> count, previous |-> deviceCount])
        PROVE  BufferInv'
    <3>1. [kind |-> "device", present |-> count, previous |-> deviceCount] \in Detection
      BY DEF Detection, TypeOK
    <3>2. QED
      BY <1>6, <2>2, <3>1, PushKeeps DEF CheckDevices
  <2>3. QED
    BY <1>6, <2>1, <2>2 DEF CheckDevices
<1>7. CASE Flush
  BY <1>7, TakeKeeps DEF Flush, ShouldFlush
<1>8. CASE Hold
  <2>1. UNCHANGED <<bufferVars, outputVars>> /\ pc = "flush" /\ pc' = "loop" /\ ~ShouldFlush
    BY <1>8 DEF Hold
  <2>2. Unprinted' = Unprinted
    BY <2>1 DEF Unprinted
  <2>3. HeldBriefly'
    BY <2>1, TimingAssumption DEF HeldBriefly, ShouldFlush, BufferInv, NotOlderThanFlush, TypeOK
  <2>4. (EmptyWhileDelivering /\ BatchNotEmpty /\ NotOlderThanFlush)'
    BY <2>1 DEF BufferInv, EmptyWhileDelivering, BatchNotEmpty, NotOlderThanFlush, DeliveryPc
  <2>5. QED
    BY <2>1, <2>2, <2>3, <2>4, QuietStepKeeps
<1>9. CASE FinalFlush
  <2>1. CASE pending = <<>>
    <3>1. UNCHANGED <<bufferVars, outputVars>> /\ pc = "loop" /\ pc' = "done"
      BY <1>9, <2>1 DEF FinalFlush
    <3>2. Unprinted' = Unprinted
      BY <3>1 DEF Unprinted
    <3>3. (EmptyWhileDelivering /\ BatchNotEmpty /\ NotOlderThanFlush /\ HeldBriefly)'
      BY <2>1, <3>1 DEF BufferInv, EmptyWhileDelivering, BatchNotEmpty, NotOlderThanFlush,
         HeldBriefly, DeliveryPc
    <3>4. QED
      BY <3>1, <3>2, <3>3, QuietStepKeeps
  <2>2. CASE pending # <<>>
    BY <1>9, <2>2, TakeKeeps DEF FinalFlush
  <2>3. QED
    BY <2>1, <2>2
<1>10. CASE Announce
  BY <1>10, AnnounceKeeps
<1>11. CASE ConsoleClosed \/ WriteLog \/ NoWebhook \/ WebhookAnswers
  <2>1. /\ UNCHANGED <<pending, detected>>
        /\ \/ pc \in AnnouncePc /\ pc' = "panicked" /\ outbox' = outbox
           \/ pc \in LogPc /\ pc' \in WebhookPc
           \/ pc \in WebhookPc /\ pc' \in {"loop", "done"}
    BY <1>11 DEF ConsoleClosed, WriteLog, NoWebhook, WebhookAnswers, EndDelivery
  <2>2. received'["console"] = received["console"]
    <3>1. /\ Given("log")["console"] = received["console"]
          /\ Given("webhook")["console"] = received["console"]
      BY GivenType DEF Channel
    <3>2. QED
      BY <1>11, <3>1 DEF ConsoleClosed, WriteLog, NoWebhook, WebhookAnswers
  <2>3. Unprinted' = Unprinted
    BY <2>1 DEF Unprinted
  <2>4. pending = <<>>
    BY <2>1 DEF BufferInv, EmptyWhileDelivering, DeliveryPc
  <2>5. NotOlderThanFlush'
    <3>1. CASE WebhookAnswers
      <4>1. PICK seconds \in 0 .. MaxPost : Elapse(seconds)
        BY <3>1 DEF WebhookAnswers
      <4>2. QED
        BY <2>1, <4>1, ElapseKeepsAge, TimingAssumption DEF BufferInv
    <3>2. CASE ConsoleClosed \/ WriteLog \/ NoWebhook
      BY <3>2 DEF ConsoleClosed, WriteLog, NoWebhook, BufferInv, NotOlderThanFlush
    <3>3. QED
      BY <1>11, <3>1, <3>2
  <2>6. (EmptyWhileDelivering /\ BatchNotEmpty /\ HeldBriefly)'
    BY <2>1, <2>4 DEF EmptyWhileDelivering, BatchNotEmpty, HeldBriefly, DeliveryPc
  <2>7. QED
    BY <2>1, <2>2, <2>3, <2>5, <2>6, QuietStepKeeps
<1>12. QED
  BY <1>1, <1>2, <1>3, <1>4, <1>5, <1>6, <1>7, <1>8, <1>9, <1>10, <1>11
  DEF Next, Worker, Stopped, vars, RecordLogged, DumpNotified, DevicesChange,
      RequestShutdown, LeavePump, JoinWorker

LEMMA BufferInvariant == Spec => []BufferInv
<1>1. Init => BufferInv
  <2> SUFFICES ASSUME Init PROVE BufferInv
    OBVIOUS
  <2>1. received["console"] = <<>> /\ Unprinted = <<>>
    BY DEF Init, Unprinted, Channel
  <2>2. <<>> = (<<>> \o <<>>) \o <<>>
    BY EmptySeq, ConcatEmptySeq
  <2>3. QED
    BY <2>1, <2>2 DEF Init, BufferInv, NothingLost, EmptyWhileDelivering, BatchNotEmpty,
       NotOlderThanFlush, HeldBriefly
<1>2. QED
  BY <1>1, BufferInvStep, TypeCorrect, PTL DEF Spec

(* No detection is lost, doubled or reordered on its way to the console.   *)
THEOREM NoDetectionIsLost == Spec => []NothingLost
<1>1. BufferInv => NothingLost
  BY DEF BufferInv
<1>2. QED
  BY <1>1, BufferInvariant, PTL

(* Urgent detections never wait for a further tick, others less than the   *)
(* window.                                                                 *)
THEOREM AlertsAreHeldBriefly == Spec => []HeldBriefly
<1>1. BufferInv => HeldBriefly
  BY DEF BufferInv
<1>2. QED
  BY <1>1, BufferInvariant, PTL

(* A worker that ended normally has announced everything it detected.      *)
THEOREM NothingIsHeldAtExit == Spec => []NothingHeldAtExit
<1>1. TypeOK /\ BufferInv => NothingHeldAtExit
  <2> SUFFICES ASSUME TypeOK, BufferInv, pc = "done" PROVE detected = received["console"]
    BY DEF NothingHeldAtExit
  <2>1. pending = <<>> /\ Unprinted = <<>>
    BY DEF BufferInv, EmptyWhileDelivering, Unprinted
  <2>2. detected = (received["console"] \o <<>>) \o <<>>
    BY <2>1 DEF BufferInv, NothingLost
  <2>3. QED
    BY <2>2, ConcatEmptySeq DEF TypeOK, Channel
<1>2. QED
  BY <1>1, BufferInvariant, TypeCorrect, PTL

-----------------------------------------------------------------------------
(* The wake-up and the outputs.                                            *)

LEMMA WakeupStep == TypeOK /\ NoLostWakeup /\ [Next]_vars => NoLostWakeup'
<1> SUFFICES ASSUME TypeOK, NoLostWakeup, [Next]_vars PROVE NoLostWakeup'
  OBVIOUS
<1> USE DEF NoLostWakeup, Windows, MainThread
<1>1. CASE RecordLogged
  BY <1>1 DEF RecordLogged
<1>2. CASE PollSignalled
  BY <1>2 DEF PollSignalled
<1>3. CASE DrainRecord
  BY <1>3 DEF DrainRecord
<1>4. CASE DrainEnds
  BY <1>4 DEF DrainEnds
<1>5. CASE UNCHANGED <<eventQueue, signalled, drainCut>> /\ (pc # "drain" \/ pc' = pc)
  BY <1>5
<1>6. CASE DumpNotified \/ DevicesChange \/ RequestShutdown \/ LeavePump \/ JoinWorker
  BY <1>5, <1>6 DEF DumpNotified, DevicesChange, RequestShutdown, LeavePump, JoinWorker
<1>7. CASE SpawnWorker \/ OpenSources \/ BeginTick \/ PollTimesOut \/ TakeNotice
           \/ DumpsEmpty \/ CheckDevices
  BY <1>5, <1>7 DEF SpawnWorker, OpenSources, BeginTick, PollTimesOut, TakeNotice,
     DumpsEmpty, CheckDevices
<1>8. CASE Flush \/ Hold \/ FinalFlush
  BY <1>5, <1>8 DEF Flush, Hold, FinalFlush
<1>9. CASE Announce \/ ConsoleClosed \/ WriteLog \/ NoWebhook \/ WebhookAnswers
  BY <1>5, <1>9 DEF Announce, ConsoleClosed, WriteLog, NoWebhook, WebhookAnswers
<1>10. CASE UNCHANGED vars
  BY <1>5, <1>10 DEF vars
<1>11. QED
  BY <1>1, <1>2, <1>3, <1>4, <1>6, <1>7, <1>8, <1>9, <1>10 DEF Next, Worker, Stopped

(* A record in the subscription has the worker's attention, or the signal  *)
(* that will get it, unless the last drain was cut short by a failing      *)
(* EvtNext.                                                                *)
THEOREM NoWakeupIsLost == Spec => []NoLostWakeup
<1>1. Init => NoLostWakeup
  BY DEF Init, NoLostWakeup
<1>2. QED
  BY <1>1, WakeupStep, TypeCorrect, PTL DEF Spec

LEMMA OutputsStep == TypeOK /\ FailuresStayLocal /\ [Next]_vars => FailuresStayLocal'
<1> SUFFICES ASSUME TypeOK, FailuresStayLocal, [Next]_vars PROVE FailuresStayLocal'
  OBVIOUS
<1> USE DEF Windows, MainThread
<1> DEFINE Settled == pc \notin LogPc \cup WebhookPc /\ pc' \notin LogPc \cup WebhookPc
<1>1. ASSUME UNCHANGED <<received, failed>>, Unlogged' = Unlogged, Unposted' = Unposted
      PROVE  FailuresStayLocal'
  BY <1>1 DEF FailuresStayLocal
<1>2. CASE UNCHANGED workerVars
  BY <1>1, <1>2 DEF Unlogged, Unposted
<1>3. ASSUME UNCHANGED <<received, failed>>, Settled
      PROVE  FailuresStayLocal'
  BY <1>1, <1>3 DEF Unlogged, Unposted
<1>4. CASE SpawnWorker \/ OpenSources \/ BeginTick \/ PollSignalled \/ PollTimesOut
           \/ DrainRecord \/ DrainEnds
  BY <1>3, <1>4 DEF SpawnWorker, OpenSources, BeginTick, PollSignalled, PollTimesOut,
     DrainRecord, DrainEnds
<1>5. CASE TakeNotice \/ DumpsEmpty \/ CheckDevices \/ Flush \/ Hold \/ FinalFlush
           \/ ConsoleClosed
  BY <1>3, <1>5 DEF TakeNotice, DumpsEmpty, CheckDevices, Flush, Hold, FinalFlush, ConsoleClosed
<1>6. \A c \in Channel : received[c] \in Seq(Detection) /\ received[c] \o <<>> = received[c]
  BY ConcatEmptySeq DEF TypeOK
<1>7. CASE Announce
  <2>1. /\ received'["console"] = received["console"] \o outbox
        /\ received'["log"] = received["log"]
        /\ received'["webhook"] = received["webhook"]
        /\ "toast" \in failed' \/ received'["toast"] = received["toast"] \o outbox
        /\ failed \subseteq failed' /\ failed' \subseteq failed \cup {"toast"}
    <3>1. /\ Given("console") \in [Channel -> Seq(Detection)]
          /\ Given("console")["console"] = received["console"] \o outbox
          /\ \A k \in Channel \ {"console"} : Given("console")[k] = received[k]
      BY GivenType DEF Channel
    <3>2. QED
      BY <1>7, <3>1 DEF Announce, Channel
  <2>2. /\ Unlogged = <<>> /\ Unposted = <<>>
        /\ Unlogged' = outbox /\ Unposted' = outbox
    BY <1>7 DEF Announce, Unlogged, Unposted
  <2>3. QED
    BY <1>6, <2>1, <2>2 DEF FailuresStayLocal, Channel
<1>8. CASE WriteLog
  <2>1. /\ "log" \in Outputs \ failed' => received'["log"] = received["log"] \o outbox
        /\ \A c \in Channel \ {"log"} : received'[c] = received[c]
        /\ failed \subseteq failed' /\ failed' \subseteq failed \cup {"log"}
    BY <1>8, GivenType DEF WriteLog, Channel
  <2>2. /\ Unlogged = outbox /\ Unlogged' = <<>>
        /\ Unposted = outbox /\ Unposted' = outbox
    BY <1>8 DEF WriteLog, Unlogged, Unposted
  <2>3. received' \in [Channel -> Seq(Detection)]
    BY <1>8, GivenType DEF WriteLog, Channel, TypeOK
  <2>4. received'["log"] \o <<>> = received'["log"]
    BY <2>3, ConcatEmptySeq DEF Channel
  <2>5. QED
    BY <2>1, <2>2, <2>4 DEF FailuresStayLocal, Channel
<1>9. CASE NoWebhook \/ WebhookAnswers
  <2>1. /\ "webhook" \in Outputs \ failed' => received'["webhook"] = received["webhook"] \o outbox
        /\ \A c \in Channel \ {"webhook"} : received'[c] = received[c]
        /\ failed \subseteq failed' /\ failed' \subseteq failed \cup {"webhook"}
        /\ received' \in [Channel -> Seq(Detection)]
    BY <1>9, GivenType DEF NoWebhook, WebhookAnswers, Channel, TypeOK
  <2>2. /\ Unlogged = <<>> /\ Unlogged' = <<>>
        /\ Unposted = outbox /\ Unposted' = <<>>
    BY <1>9 DEF NoWebhook, WebhookAnswers, EndDelivery, Unlogged, Unposted
  <2>3. received'["webhook"] \o <<>> = received'["webhook"]
    BY <2>1, ConcatEmptySeq DEF Channel
  <2>4. QED
    BY <2>1, <2>2, <2>3 DEF FailuresStayLocal, Channel
<1>10. QED
  BY <1>2, <1>4, <1>5, <1>7, <1>8, <1>9
  DEF Next, Worker, Stopped, vars, RecordLogged, DumpNotified, DevicesChange,
      RequestShutdown, LeavePump, JoinWorker

(* An output that never failed has everything the console has, but for the *)
(* batch on its way.                                                       *)
THEOREM OutputsAreIndependent == Spec => []FailuresStayLocal
<1>1. Init => FailuresStayLocal
  <2> SUFFICES ASSUME Init PROVE FailuresStayLocal
    OBVIOUS
  <2>1. /\ \A c \in Channel : received[c] = <<>>
        /\ Unlogged = <<>> /\ Unposted = <<>>
    BY DEF Init, Unlogged, Unposted
  <2>2. <<>> \o <<>> = <<>>
    BY EmptySeq, ConcatEmptySeq
  <2>3. QED
    BY <2>1, <2>2 DEF FailuresStayLocal, Channel
<1>2. QED
  BY <1>1, OutputsStep, TypeCorrect, PTL DEF Spec

-----------------------------------------------------------------------------
(* The device reports.                                                     *)

(* Nothing is detected before the devices are counted for the first time.  *)
NothingBeforeTheCount == pc \in {"unborn", "open"} => detected = <<>>

DeviceInv == NothingBeforeTheCount /\ DeviceReportsChain

(* A detection of another kind leaves the chain as it is.                  *)
LEMMA OtherReportKeepsChain ==
  ASSUME TypeOK, DeviceReportsChain, NEW d \in Detection, d.kind # "device", Push(d),
         UNCHANGED deviceCount
  PROVE  DeviceReportsChain'
<1>1. /\ Len(detected) \in Nat
      /\ DOMAIN detected = 1 .. Len(detected)
      /\ DOMAIN detected' = 1 .. Len(detected) + 1
      /\ detected'[Len(detected) + 1] = d
      /\ \A i \in DOMAIN detected : detected'[i] = detected[i]
  BY PushAt
<1>2. DeviceReports' = DeviceReports
  BY <1>1 DEF DeviceReports
<1>3. \A i \in DeviceReports : detected'[i] = detected[i]
  BY <1>1 DEF DeviceReports
<1>4. QED
  BY <1>2, <1>3 DEF DeviceReportsChain

(* A device report continues the chain from the count it starts at.        *)
LEMMA DeviceReportExtendsChain ==
  ASSUME TypeOK, DeviceReportsChain, NEW count \in Counts, count # deviceCount,
         Push([kind |-> "device", present |-> count, previous |-> deviceCount]),
         deviceCount' = count
  PROVE  DeviceReportsChain'
<1> DEFINE last == Len(detected) + 1
           d == [kind |-> "device", present |-> count, previous |-> deviceCount]
<1>1. /\ Len(detected) \in Nat
      /\ DOMAIN detected = 1 .. Len(detected)
      /\ DOMAIN detected' = 1 .. last
      /\ detected'[last] = d
      /\ \A i \in DOMAIN detected : detected'[i] = detected[i]
  <2>1. d \in Detection
    BY DEF TypeOK, Detection
  <2>2. Push(d)
    OBVIOUS
  <2> HIDE DEF d
  <2>3. QED
    BY <2>1, <2>2, PushAt
<1>2. DeviceReports' = DeviceReports \cup {last}
  BY <1>1 DEF DeviceReports
<1>3. \A i \in DeviceReports : i \in Nat /\ i < last /\ detected'[i] = detected[i]
  BY <1>1 DEF DeviceReports
<1>4. d.kind = "device" /\ d.present = count /\ d.previous = deviceCount
  OBVIOUS
<1> HIDE DEF d, last
<1>5. ASSUME NEW i \in DeviceReports'
      PROVE  LET later == {j \in DeviceReports' : j > i}
             IN /\ detected'[i].present # detected'[i].previous
                /\ \A j \in later :
                     (\A k \in later : j <= k) => detected'[j].previous = detected'[i].present
                /\ later = {} => detected'[i].present = deviceCount'
  <2> DEFINE later == {j \in DeviceReports : j > i}
             laterNow == {j \in DeviceReports' : j > i}
  <2>0. last \in Nat
    BY <1>1 DEF last
  <2>1. CASE i = last
    <3>1. laterNow = {}
      BY <1>2, <1>3, <2>0, <2>1
    <3>2. QED
      BY <1>1, <1>4, <2>1, <3>1
  <2>2. CASE i \in DeviceReports
    <3>1. laterNow = later \cup {last}
      BY <1>2, <1>3, <2>0, <2>2
    <3>2. \A j \in later : j < last /\ j \in Nat /\ j \in DeviceReports
      BY <1>3
    <3>3. /\ detected[i].present # detected[i].previous
          /\ \A j \in later :
               (\A k \in later : j <= k) => detected[j].previous = detected[i].present
          /\ later = {} => detected[i].present = deviceCount
      BY <2>2 DEF DeviceReportsChain
    <3>4. detected'[i] = detected[i]
      BY <1>3, <2>2
    <3>5. ASSUME NEW j \in laterNow, \A k \in laterNow : j <= k
          PROVE  detected'[j].previous = detected'[i].present
      <4>1. CASE j \in later
        <5>1. \A k \in later : j <= k
          BY <3>1, <3>5
        <5>2. detected[j].previous = detected[i].present
          BY <3>3, <4>1, <5>1
        <5>3. detected'[j] = detected[j]
          BY <1>3, <4>1
        <5>4. QED
          BY <3>4, <5>2, <5>3
      <4>2. CASE j = last
        <5>1. later = {}
          BY <2>0, <3>1, <3>2, <3>5, <4>2
        <5>2. QED
          BY <1>1, <1>4, <3>3, <3>4, <4>2, <5>1
      <4>3. QED
        BY <3>1, <3>5, <4>1, <4>2
    <3>6. QED
      BY <3>1, <3>3, <3>4, <3>5
  <2>3. QED
    BY <1>2, <1>5, <2>1, <2>2
<1>6. QED
  BY <1>5 DEF DeviceReportsChain

LEMMA DeviceInvStep == TypeOK /\ DeviceInv /\ [Next]_vars => DeviceInv'
<1> SUFFICES ASSUME TypeOK, DeviceInv, [Next]_vars PROVE DeviceInv'
  OBVIOUS
<1> USE DEF Windows, MainThread, DeviceInv
<1>1. ASSUME UNCHANGED <<detected, deviceCount>>, pc' \in {"unborn", "open"} => pc \in {"unborn", "open"}
      PROVE  DeviceInv'
  BY <1>1 DEF NothingBeforeTheCount, DeviceReportsChain, DeviceReports
<1>2. ASSUME DeviceReportsChain', pc' \notin {"unborn", "open"}
      PROVE  DeviceInv'
  BY <1>2 DEF NothingBeforeTheCount
<1>3. CASE UNCHANGED workerVars
  BY <1>1, <1>3
<1>4. CASE SpawnWorker
  BY <1>1, <1>4 DEF SpawnWorker
<1>5. CASE OpenSources
  <2>1. detected = <<>> /\ detected' = <<>>
    BY <1>5 DEF OpenSources, NothingBeforeTheCount
  <2>2. DeviceReports' = {}
    BY <2>1, EmptySeq DEF DeviceReports
  <2>3. DeviceReportsChain'
    BY <2>2 DEF DeviceReportsChain
  <2>4. QED
    BY <1>2, <1>5, <2>3 DEF OpenSources
<1>6. CASE BeginTick \/ PollSignalled \/ PollTimesOut \/ DrainEnds \/ DumpsEmpty
           \/ Hold \/ NoWebhook
  BY <1>1, <1>6 DEF BeginTick, PollSignalled, PollTimesOut, DrainEnds, DumpsEmpty, Hold,
     NoWebhook, EndDelivery
<1>7. CASE Flush \/ FinalFlush
  BY <1>1, <1>7 DEF Flush, FinalFlush, Take
<1>8. CASE Announce \/ ConsoleClosed \/ WriteLog \/ WebhookAnswers
  BY <1>1, <1>8 DEF Announce, ConsoleClosed, WriteLog, WebhookAnswers, EndDelivery
<1>9. CASE DrainRecord
  <2>1. CASE UNCHANGED bufferVars
    BY <1>1, <1>9, <2>1 DEF DrainRecord
  <2>2. CASE Push([kind |-> "event", id |-> Head(eventQueue)])
    <3>1. Head(eventQueue) \in 1 .. MaxRecords
      BY <1>9, HeadTailProperties DEF DrainRecord, TypeOK
    <3>2. [kind |-> "event", id |-> Head(eventQueue)] \in Detection
      BY <3>1 DEF Detection
    <3>3. DeviceReportsChain'
      BY <1>9, <2>2, <3>2, OtherReportKeepsChain DEF DrainRecord
    <3>4. QED
      BY <1>2, <1>9, <3>3 DEF DrainRecord
  <2>3. QED
    BY <1>9, <2>1, <2>2 DEF DrainRecord
<1>10. CASE TakeNotice
  <2>1. pc' \notin {"unborn", "open"} /\ UNCHANGED deviceCount
    BY <1>10 DEF TakeNotice
  <2>2. CASE Head(dumpQueue).kind = "dump"
    <3>1. Head(dumpQueue) \in Notice
      BY <1>10, HeadTailProperties DEF TakeNotice, TypeOK
    <3>2. Head(dumpQueue) \in Detection
      BY <2>2, <3>1 DEF Notice, Detection
    <3>3. Push(Head(dumpQueue))
      BY <1>10, <2>2 DEF TakeNotice
    <3>4. DeviceReportsChain'
      BY <2>1, <2>2, <3>2, <3>3, OtherReportKeepsChain
    <3>5. QED
      BY <1>2, <2>1, <3>4
  <2>3. CASE Head(dumpQueue).kind # "dump"
    BY <1>1, <1>10, <2>1, <2>3 DEF TakeNotice
  <2>4. QED
    BY <2>2, <2>3
<1>11. CASE CheckDevices
  <2>1. pc' \notin {"unborn", "open"}
    BY <1>11 DEF CheckDevices
  <2>2. CASE UNCHANGED <<detected, deviceCount>>
    BY <1>1, <2>1, <2>2
  <2>3. CASE ~UNCHANGED <<detected, deviceCount>>
    <3>1. PICK count \in Counts :
            /\ deviceCount' = count
            /\ IF count = deviceCount
               THEN UNCHANGED bufferVars
               ELSE Push([kind |-> "device", present |-> count, previous |-> deviceCount])
      BY <1>11, <2>3 DEF CheckDevices
    <3>2. count # deviceCount
      BY <2>3, <3>1
    <3>3. DeviceReportsChain'
      BY <3>1, <3>2, DeviceReportExtendsChain
    <3>4. QED
      BY <1>2, <2>1, <3>3
  <2>4. QED
    BY <2>2, <2>3
<1>12. CASE UNCHANGED vars
  BY <1>1, <1>12 DEF vars
<1>13. QED
  BY <1>3, <1>4, <1>5, <1>6, <1>7, <1>8, <1>9, <1>10, <1>11, <1>12
  DEF Next, Worker, Stopped, RecordLogged, DumpNotified, DevicesChange,
      RequestShutdown, LeavePump, JoinWorker

(* Each device report starts from the count the one before it ended with,  *)
(* reports a difference, and the last ends with the count the worker       *)
(* compares the next one against.                                          *)
THEOREM DeviceReportsAreChained == Spec => []DeviceReportsChain
<1>1. Init => DeviceInv
  <2>1. Init => DeviceReports = {}
    BY EmptySeq DEF Init, DeviceReports
  <2>2. QED
    BY <2>1 DEF Init, DeviceInv, NothingBeforeTheCount, DeviceReportsChain
<1>2. DeviceInv => DeviceReportsChain
  BY DEF DeviceInv
<1>3. QED
  BY <1>1, <1>2, DeviceInvStep, TypeCorrect, PTL DEF Spec

-----------------------------------------------------------------------------
(* Refinement.                                                             *)

(* A batch about to be printed is all that is not announced, and it is not *)
(* empty.                                                                  *)
LEMMA BatchIsMissing ==
  ASSUME TypeOK, BufferInv, pc \in AnnouncePc
  PROVE  received["console"] # detected
<1>1. pending = <<>> /\ outbox # <<>>
  BY DEF BufferInv, EmptyWhileDelivering, BatchNotEmpty, DeliveryPc
<1>2. received["console"] \in Seq(Detection) /\ outbox \in Seq(Detection)
  BY DEF TypeOK, Channel
<1>3. received["console"] \o outbox \in Seq(Detection)
  BY <1>2, ConcatProperties
<1>4. detected = received["console"] \o outbox
  <2>1. detected = (received["console"] \o outbox) \o <<>>
    BY <1>1 DEF BufferInv, NothingLost, Unprinted
  <2>2. QED
    BY <1>3, <2>1, ConcatEmptySeq
<1>5. Len(outbox) # 0 /\ Len(outbox) \in Nat /\ Len(received["console"]) \in Nat
  BY <1>1, <1>2, EmptySeq, LenProperties
<1>6. Len(detected) = Len(received["console"]) + Len(outbox)
  BY <1>2, <1>4, ConcatProperties
<1>7. QED
  BY <1>5, <1>6

LEMMA StepImplements == TypeOK /\ BufferInv /\ [Next]_vars => [Alerts!Next]_(Alerts!vars)
<1> SUFFICES ASSUME TypeOK, BufferInv, [Next]_vars PROVE [Alerts!Next]_(Alerts!vars)
  OBVIOUS
<1> USE DEF Windows, MainThread
<1>1. ASSUME UNCHANGED <<detected, received>>, pc' = "panicked" <=> pc = "panicked"
      PROVE [Alerts!Next]_(Alerts!vars)
  BY <1>1 DEF Alerts!vars
<1>2. ASSUME NEW d \in Detection, Push(d), UNCHANGED received,
             pc # "panicked", pc' # "panicked"
      PROVE Alerts!Detect
  BY <1>2 DEF Push, Alerts!Detect
<1>3. CASE UNCHANGED workerVars
  BY <1>1, <1>3 DEF workerVars, bufferVars, outputVars
<1>4. CASE SpawnWorker \/ OpenSources \/ BeginTick \/ PollSignalled \/ PollTimesOut
           \/ DrainEnds \/ DumpsEmpty \/ Hold \/ NoWebhook
  <2>1. pc # "panicked" /\ pc' # "panicked"
    BY <1>4 DEF SpawnWorker, OpenSources, BeginTick, PollSignalled, PollTimesOut,
       DrainEnds, DumpsEmpty, Hold, NoWebhook, EndDelivery, WebhookPc
  <2>2. UNCHANGED <<detected, received>>
    BY <1>4 DEF SpawnWorker, OpenSources, BeginTick, PollSignalled, PollTimesOut,
       DrainEnds, DumpsEmpty, Hold, NoWebhook, bufferVars, outputVars
  <2>3. QED
    BY <1>1, <2>1, <2>2
<1>5. CASE Flush \/ FinalFlush
  BY <1>1, <1>5 DEF Flush, FinalFlush, Take, bufferVars
<1>6. CASE DrainRecord
  <2>1. Head(eventQueue) \in 1 .. MaxRecords
    BY <1>6, HeadTailProperties DEF DrainRecord, TypeOK
  <2>2. [kind |-> "event", id |-> Head(eventQueue)] \in Detection
    BY <2>1 DEF Detection
  <2>3. pc # "panicked" /\ pc' # "panicked"
    BY <1>6 DEF DrainRecord
  <2>4. QED
    BY <1>1, <1>2, <1>6, <2>2, <2>3 DEF DrainRecord, Alerts!Next, bufferVars, outputVars
<1>7. CASE TakeNotice
  <2>1. Head(dumpQueue) \in Notice
    BY <1>7, HeadTailProperties DEF TakeNotice, TypeOK
  <2>2. Head(dumpQueue).kind = "dump" => Head(dumpQueue) \in Detection
    BY <2>1 DEF Notice, Detection
  <2>3. pc # "panicked" /\ pc' # "panicked"
    BY <1>7 DEF TakeNotice
  <2>4. QED
    BY <1>1, <1>2, <1>7, <2>2, <2>3 DEF TakeNotice, Alerts!Next, bufferVars, outputVars
<1>8. CASE CheckDevices
  <2>1. \A count \in Counts :
          [kind |-> "device", present |-> count, previous |-> deviceCount] \in Detection
    BY DEF TypeOK, Detection
  <2>2. pc # "panicked" /\ pc' # "panicked"
    BY <1>8 DEF CheckDevices
  <2>3. QED
    BY <1>1, <1>2, <1>8, <2>1, <2>2 DEF CheckDevices, Alerts!Next, bufferVars, outputVars
<1>9. CASE Announce
  <2>1. received'["console"] = detected
    BY <1>9, AnnounceKeeps
  <2>2. detected' = detected /\ pc # "panicked" /\ pc' # "panicked"
    BY <1>9 DEF Announce, AnnouncePc
  <2>3. received["console"] # detected
    BY <1>9, BatchIsMissing DEF Announce
  <2>4. QED
    BY <2>1, <2>2, <2>3 DEF Alerts!Next, Alerts!Announce
<1>10. CASE ConsoleClosed
  <2>1. /\ UNCHANGED <<detected, received>>
        /\ pc \in AnnouncePc /\ pc' = "panicked"
    BY <1>10 DEF ConsoleClosed, bufferVars, outputVars
  <2>2. received["console"] # detected
    BY <2>1, BatchIsMissing
  <2>3. QED
    BY <2>1, <2>2 DEF Alerts!Next, Alerts!Break, AnnouncePc
<1>11. CASE WriteLog \/ WebhookAnswers
  <2>1. received'["console"] = received["console"]
    <3>1. /\ Given("log")["console"] = received["console"]
          /\ Given("webhook")["console"] = received["console"]
      BY GivenType DEF Channel
    <3>2. QED
      BY <1>11, <3>1 DEF WriteLog, WebhookAnswers
  <2>2. detected' = detected
    BY <1>11 DEF WriteLog, WebhookAnswers
  <2>3. pc # "panicked" /\ pc' # "panicked"
    BY <1>11 DEF WriteLog, WebhookAnswers, EndDelivery, LogPc, WebhookPc
  <2>4. QED
    BY <2>1, <2>2, <2>3 DEF Alerts!vars
<1>12. QED
  BY <1>3, <1>4, <1>5, <1>6, <1>7, <1>8, <1>9, <1>10, <1>11
  DEF Next, Worker, Stopped, vars, RecordLogged, DumpNotified, DevicesChange,
      RequestShutdown, LeavePump, JoinWorker

(* The monitor implements the safety part of AlertDelivery: every step of  *)
(* it detects one thing, announces everything detected, or does neither.   *)
THEOREM MonitorDelivers == Spec => DeliversSafely
<1>1. Init => Alerts!Init
  BY DEF Init, Alerts!Init, Channel
<1>2. QED
  BY <1>1, StepImplements, TypeCorrect, BufferInvariant, PTL
  DEF Spec, DeliversSafely, Alerts!SafeSpec
=============================================================================
