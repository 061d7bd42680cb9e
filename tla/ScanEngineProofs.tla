------------------------- MODULE ScanEngineProofs --------------------------
(***************************************************************************)
(* Machine-checked proofs about the scan engine, for any channels, logs,   *)
(* caps, answers and panics: its types, that it implements SequentialScan, *)
(* that no provider goes without a note when the events thread does not    *)
(* panic, that the timeline is the merge of what was read, and that a mark *)
(* is lost to de-duplication only.                                         *)
(***************************************************************************)
EXTENDS ScanEngine, SequenceTheorems, FunctionTheorems, FiniteSetTheorems, TLAPS

USE DEF sources, eventVars, threadVars, reportVars

-----------------------------------------------------------------------------
(* The constants.                                                          *)

LEMMA ThreadsAre ==
  /\ Threads = {"SystemInventory", "Firmware", "SecurityPosture", "Drivers", "Devices",
                "Services", "Changes", "Events"}
  /\ Plain = {"SystemInventory", "Firmware", "SecurityPosture", "Drivers", "Devices", "Changes"}
  /\ Len(Collectors) = 8
  /\ \A i \in 1 .. 8 : Collectors[i] \in Threads
<1>1. DOMAIN Collectors = 1 .. 8 /\ Len(Collectors) = 8
  BY DEF Collectors
<1>2. \A i \in 1 .. 8 : i = 1 \/ i = 2 \/ i = 3 \/ i = 4 \/ i = 5 \/ i = 6 \/ i = 7 \/ i = 8
  OBVIOUS
<1>3. Threads = {"SystemInventory", "Firmware", "SecurityPosture", "Drivers", "Devices",
                 "Services", "Changes", "Events"}
  BY <1>1, <1>2 DEF Threads, Collectors
<1>4. \A i \in 1 .. 8 : Collectors[i] \in Threads
  BY <1>1 DEF Threads
<1>5. QED
  BY <1>1, <1>3, <1>4 DEF Plain

LEMMA GivenType ==
  ASSUME NEW p \in Threads
  PROVE  Given(p) \subseteq Statuses \X Nat /\ Failed(p) \in Statuses \X Nat
<1>1. CASE p = "Services"
  BY <1>1, CollectionAssumption DEF Given, Failed, Statuses, Single
<1>2. CASE p = "Events"
  BY <1>2, CollectionAssumption DEF Given, Failed, Statuses, Single
<1>3. CASE p \in Plain
  BY <1>3, ThreadsAre, CollectionAssumption DEF Given, Failed, Statuses, Single, Providers
<1>4. QED
  BY <1>1, <1>2, <1>3 DEF Plain

-----------------------------------------------------------------------------
(* Sequences.                                                              *)

LEMMA FunctionIsSeq ==
  ASSUME NEW S, NEW n \in Nat, NEW f \in [1 .. n -> S]
  PROVE  f \in Seq(S) /\ Len(f) = n
<1>1. f \in Seq(S)
  BY SeqDef
<1>2. QED
  BY <1>1

LEMMA AppendAt ==
  ASSUME NEW S, NEW s \in Seq(S), NEW x \in S, NEW n \in Nat, Len(s) = n
  PROVE  /\ DOMAIN Append(s, x) = 1 .. n + 1 /\ Len(Append(s, x)) = n + 1
         /\ \A i \in 1 .. n : Append(s, x)[i] = s[i]
         /\ Append(s, x)[n + 1] = x
BY AppendProperties

-----------------------------------------------------------------------------
(* Merging: records stay records, and there are at most as many as events. *)

LEMMA MergedType ==
  ASSUME NEW seq \in Seq(EventIds), NEW merged \in Merged(seq)
  PROVE  merged \in Seq(EventIds) /\ Len(merged) \in 0 .. Events
<1> DEFINE n == Cardinality(Kept(seq))
<1>1. DOMAIN seq = 1 .. Len(seq) /\ Len(seq) \in Nat /\ \A i \in DOMAIN seq : seq[i] \in EventIds
  OBVIOUS
<1>2. IsFiniteSet(DOMAIN seq)
  <2>1. 1 \in Int /\ Len(seq) \in Int
    BY <1>1
  <2>2. QED
    BY <1>1, <2>1, FS_Interval
<1>3. Kept(seq) \subseteq DOMAIN seq
  BY DEF Kept
<1>4. IsFiniteSet(Kept(seq)) /\ n \in Nat
  BY <1>2, <1>3, FS_Subset, FS_CardinalityType
<1>5. PICK order \in MergeOrders(seq) : merged = [k \in DOMAIN order |-> seq[order[k]]]
  BY DEF Merged
<1>6. order \in [1 .. n -> Kept(seq)]
  BY DEF MergeOrders
<1>7. merged \in [1 .. n -> EventIds]
  BY <1>1, <1>3, <1>5, <1>6
<1>8. merged \in Seq(EventIds) /\ Len(merged) = n
  BY <1>4, <1>7, IsASeq, LenProperties
<1>9. n <= Events
  <2> DEFINE f == [i \in Kept(seq) |-> seq[i]]
  <2>1. f \in [Kept(seq) -> EventIds]
    BY <1>1, <1>3
  <2>2. ASSUME NEW i \in Kept(seq), NEW j \in Kept(seq), f[i] = f[j] PROVE i = j
    <3>1. i \in Nat /\ j \in Nat /\ i >= 1 /\ j >= 1 /\ seq[i] = seq[j]
      BY <1>1, <1>3, <2>2
    <3>2. ~ (i < j) /\ ~ (j < i)
      BY <3>1 DEF Kept
    <3>3. QED
      BY <3>1, <3>2
  <2>3. f \in Injection(Kept(seq), EventIds)
    BY <2>1, <2>2, Fun_IsInj
  <2>4. IsFiniteSet(EventIds) /\ Cardinality(EventIds) = Events
    <3>1. 1 \in Int /\ Events \in Nat
      BY CollectionAssumption
    <3>2. QED
      BY <3>1, FS_Interval DEF EventIds
  <2>5. QED
    BY <2>3, <2>4, FS_Injection
<1>10. QED
  BY <1>4, <1>8, <1>9

-----------------------------------------------------------------------------
(* Types.  A thread that returned has given one of its answers, which is   *)
(* what makes the answers that are joined well typed.                      *)

AnswersGiven == \A p \in Threads : thread[p] = "returned" => answer[p] \in Given(p)

NotMarkedYet == main \in {"spawn", "join", "dumps", "corroborate"} => marked = {}

TypeInv == TypeOK /\ AnswersGiven /\ NotMarkedYet

LEMMA TypeInit == Init => TypeInv
<1> SUFFICES ASSUME Init PROVE TypeInv
  OBVIOUS
<1>1. Channels \in Nat \ {0} /\ \A p \in Threads : answer[p] = <<"none", 0>>
  BY CollectionAssumption DEF Init
<1>2. TypeOK
  BY <1>1 DEF Init, TypeOK, Collectors
<1>3. QED
  BY <1>2 DEF Init, TypeInv, AnswersGiven, NotMarkedYet

(* What TypeOK says of the variables the actions read.                     *)
LEMMA Typing ==
  ASSUME TypeOK
  PROVE  /\ thread \in [Threads -> {"unborn", "running", "returned", "panicked"}]
         /\ answer \in [Threads -> (Statuses \cup {"none"}) \X Nat]
         /\ log \in [1 .. Channels + 1 -> SUBSET EventIds]
         /\ Channels \in Nat \ {0} /\ channel \in 1 .. Channels + 3
         /\ records \in Seq(EventIds) /\ gathered \in Seq(EventIds)
         /\ eventNotes \in Seq(NoteSet) /\ notes \in Seq(NoteSet)
         /\ joined \in Seq(Statuses \X Nat)
         /\ joined \in [1 .. Len(joined) -> Statuses \X Nat] /\ Len(joined) \in Nat
BY CollectionAssumption, LenProperties DEF TypeOK, Reliability

LEMMA NoteType ==
  ASSUME NEW name \in Threads \cup {"CrashDumps", "EventLog", "ReliabilityMonitor"},
         NEW result \in Statuses \X Nat
  PROVE  Note(name, result) \in NoteSet
BY DEF Note, NoteSet

LEMMA CallerType ==
  ASSUME TypeInv, Caller
  PROVE  TypeInv'
<1>0. TypeOK /\ AnswersGiven /\ NotMarkedYet
  BY DEF TypeInv
<1>1. CASE Spawn
  BY <1>0, <1>1 DEF TypeInv, TypeOK, AnswersGiven, NotMarkedYet, Spawn
<1>2. CASE Join
  <2> DEFINE p == Collectors[Len(joined) + 1]
             a == IF thread[p] = "panicked" THEN Failed(p) ELSE answer[p]
  <2>1. Len(joined) + 1 \in 1 .. 8 /\ Len(joined) + 1 <= 8 /\ p \in Threads
    <3>1. Len(joined) \in Nat /\ Len(joined) < 8
      BY <1>0, <1>2, Typing, ThreadsAre DEF Join
    <3>2. Len(joined) + 1 \in 1 .. 8 /\ Len(joined) + 1 <= 8
      BY <3>1
    <3>3. QED
      BY <3>2, ThreadsAre
  <2>2. a \in Statuses \X Nat
    BY <1>0, <1>2, <2>1, GivenType DEF Join, AnswersGiven
  <2>3. joined' = Append(joined, a) /\ joined \in Seq(Statuses \X Nat)
    BY <1>0, <1>2, Typing DEF Join
  <2> HIDE DEF a
  <2>4. joined' \in Seq(Statuses \X Nat) /\ Len(joined') <= 8
    <3>1. joined' \in Seq(Statuses \X Nat) /\ Len(joined') = Len(joined) + 1
      BY <2>2, <2>3, AppendProperties
    <3>2. QED
      BY <2>1, <3>1
  <2>5. QED
    BY <1>0, <1>2, <2>4, ThreadsAre DEF TypeInv, TypeOK, AnswersGiven, NotMarkedYet, Join
<1>3. CASE FillReport
  <2> DEFINE first == [i \in 1 .. Len(Collectors) - 1 |-> Note(Collectors[i], joined[i])]
             rest == IF thread["Events"] = "panicked" THEN <<>> ELSE eventNotes
  <2>1. Len(joined) = 8 /\ Len(Collectors) - 1 = 7
    BY <1>3, ThreadsAre DEF FillReport
  <2>2. \A i \in 1 .. 7 : Note(Collectors[i], joined[i]) \in NoteSet
    <3> SUFFICES ASSUME NEW i \in 1 .. 7 PROVE Note(Collectors[i], joined[i]) \in NoteSet
      OBVIOUS
    <3>1. i \in 1 .. 8 /\ joined \in [1 .. Len(joined) -> Statuses \X Nat]
      BY <1>0, Typing
    <3>2. joined[i] \in Statuses \X Nat /\ Collectors[i] \in Threads
      BY <2>1, <3>1, ThreadsAre
    <3>3. QED
      BY <3>2, NoteType
  <2>3. first \in Seq(NoteSet)
    <3>1. first = [i \in 1 .. 7 |-> Note(Collectors[i], joined[i])]
      BY <2>1
    <3> HIDE DEF first
    <3>2. first \in [1 .. 7 -> NoteSet]
      BY <2>2, <3>1
    <3>3. QED
      BY <3>2, SeqDef
  <2>4. rest \in Seq(NoteSet)
    BY <1>0, Typing
  <2>5. notes' = first \o rest
    BY <1>3 DEF FillReport
  <2> HIDE DEF first, rest
  <2>6. notes' \in Seq(NoteSet)
    BY <2>3, <2>4, <2>5, ConcatProperties
  <2>7. timeline' \in Seq(EventIds)
    BY <1>0, <1>3, Typing DEF FillReport
  <2>8. problems' \in Services \cup {<<>>} /\ marked' \subseteq DOMAIN problems'
    BY <1>0, <1>3 DEF FillReport, TypeOK, NotMarkedYet
  <2>9. QED
    BY <1>0, <1>3, <2>6, <2>7, <2>8 DEF TypeInv, TypeOK, AnswersGiven, NotMarkedYet, FillReport
<1>4. CASE ReadDumps
  <2>1. notes' \in Seq(NoteSet)
    <3>1. CASE UNCHANGED notes
      BY <1>0, <3>1, Typing
    <3>2. ASSUME NEW result \in Answers["CrashDumps"],
                 notes' = Append(notes, Note("CrashDumps", result))
          PROVE  notes' \in Seq(NoteSet)
      <4>1. result \in Statuses \X Nat
        BY CollectionAssumption DEF Providers
      <4>2. Note("CrashDumps", result) \in NoteSet /\ notes \in Seq(NoteSet)
        BY <1>0, <4>1, NoteType, Typing
      <4>3. QED
        BY <3>2, <4>2, AppendProperties
    <3>3. QED
      BY <1>4, <3>1, <3>2 DEF ReadDumps
  <2>2. QED
    BY <1>0, <1>4, <2>1 DEF TypeInv, TypeOK, AnswersGiven, NotMarkedYet, ReadDumps
<1>5. CASE Corroborate
  BY <1>0, <1>5 DEF TypeInv, TypeOK, AnswersGiven, NotMarkedYet, Corroborate
<1>6. CASE Analyse
  BY <1>0, <1>6 DEF TypeInv, TypeOK, AnswersGiven, NotMarkedYet, Analyse
<1>7. QED
  BY <1>1, <1>2, <1>3, <1>4, <1>5, <1>6 DEF Caller

LEMMA ReturnType ==
  ASSUME TypeInv, NEW p \in Threads, NEW result \in Given(p), Return(p, result)
  PROVE  /\ thread' \in [Threads -> {"unborn", "running", "returned", "panicked"}]
         /\ answer' \in [Threads -> (Statuses \cup {"none"}) \X Nat]
         /\ AnswersGiven'
<1>1. result \in Statuses \X Nat
  BY GivenType
<1>2. thread \in [Threads -> {"unborn", "running", "returned", "panicked"}]
      /\ answer \in [Threads -> (Statuses \cup {"none"}) \X Nat]
  BY Typing DEF TypeInv
<1>3. QED
  BY <1>1, <1>2 DEF TypeInv, AnswersGiven, Return

LEMMA PanicType ==
  ASSUME TypeInv, NEW p \in Threads, Panic(p)
  PROVE  TypeInv'
<1>1. thread \in [Threads -> {"unborn", "running", "returned", "panicked"}]
  BY Typing DEF TypeInv
<1>2. AnswersGiven'
  BY <1>1 DEF TypeInv, AnswersGiven, Panic
<1>3. QED
  BY <1>2 DEF TypeInv, TypeOK, NotMarkedYet, Panic

LEMMA PlainType ==
  ASSUME TypeInv, NEW p \in Plain, PlainThread(p)
  PROVE  TypeInv'
<1>0. p \in Threads /\ p # "Services" /\ p # "Events"
  BY DEF Plain
<1>1. CASE Collect(p)
  <2>1. PICK result \in Answers[p] : Return(p, result)
    BY <1>1 DEF Collect
  <2>2. result \in Given(p)
    BY <1>0, <2>1 DEF Given
  <2>3. QED
    BY <1>0, <1>1, <2>1, <2>2, ReturnType DEF TypeInv, TypeOK, NotMarkedYet, Collect
<1>2. CASE Panic(p)
  BY <1>0, <1>2, PanicType
<1>3. QED
  BY <1>1, <1>2 DEF PlainThread

LEMMA ServicesType ==
  ASSUME TypeInv, ServicesThread
  PROVE  TypeInv'
<1>0. "Services" \in Threads
  BY ThreadsAre
<1>1. CASE CollectServices
  <2>1. PICK result \in Given("Services") :
          Return("Services", result) /\ services' \in Services \cup {<<>>}
    BY <1>1 DEF CollectServices, Given
  <2>2. QED
    BY <1>0, <1>1, <2>1, ReturnType DEF TypeInv, TypeOK, NotMarkedYet, CollectServices
<1>2. CASE Panic("Services")
  BY <1>0, <1>2, PanicType
<1>3. QED
  BY <1>1, <1>2 DEF ServicesThread

LEMMA EventsType ==
  ASSUME TypeInv, EventsThread
  PROVE  TypeInv'
<1>0. TypeOK /\ AnswersGiven /\ NotMarkedYet /\ "Events" \in Threads
  BY ThreadsAre DEF TypeInv
<1>1. CASE QueryChannel
  <2>1. channel \in ChannelIds /\ channel + 1 \in 1 .. Channels + 3
    <3>1. channel \in 1 .. Channels + 3 /\ Channels \in Nat
      BY <1>0, Typing
    <3>2. channel <= Channels
      BY <1>1 DEF QueryChannel
    <3>3. QED
      BY <3>1, <3>2 DEF ChannelIds
  <2>2. log[channel] \subseteq EventIds
    <3>1. channel \in 1 .. Channels + 1
      BY <1>0, <2>1, Typing DEF ChannelIds
    <3>2. log \in [1 .. Channels + 1 -> SUBSET EventIds]
      BY <1>0, Typing
    <3>3. QED
      BY <3>1, <3>2
  <2>3. ASSUME NEW n, NEW read \in Newest(log[channel], n), n \in Nat
        PROVE  records \o read \in Seq(EventIds)
    <3>1. read \in [1 .. n -> EventIds]
      BY <2>2 DEF Newest
    <3>2. read \in Seq(EventIds) /\ records \in Seq(EventIds)
      BY <1>0, <2>3, <3>1, Typing
    <3>3. QED
      BY <3>2, ConcatProperties
  <2>4. AtMost(Cardinality(log[channel]), Cap[channel]) \in Nat
    <3>1. IsFiniteSet(log[channel])
      <4>1. 1 \in Int /\ Events \in Int
        BY CollectionAssumption
      <4>2. QED
        BY <2>2, <4>1, FS_Interval, FS_Subset DEF EventIds
    <3>2. Cardinality(log[channel]) \in Nat
      BY <3>1, FS_CardinalityType
    <3>3. QED
      BY <2>1, <3>2, CollectionAssumption DEF AtMost
  <2>5. records' \in Seq(EventIds)
    <3> DEFINE all == AtMost(Cardinality(log[channel]), Cap[channel])
    <3>1. CASE UNCHANGED records
      BY <1>0, <3>1, Typing
    <3>2. ASSUME NEW n \in Nat, \E read \in Newest(log[channel], n) : records' = records \o read
          PROVE  records' \in Seq(EventIds)
      BY <2>3, <3>2
    <3>3. \A n \in 0 .. all - 1 : n \in Nat
      BY <2>4
    <3>4. all \in Nat
      BY <2>4
    <3> HIDE DEF all
    <3>5. \/ UNCHANGED records
          \/ \E n \in {all} \cup (0 .. all - 1) : \E read \in Newest(log[channel], n) : records' = records \o read
      BY <1>1 DEF QueryChannel, all
    <3>6. QED
      BY <3>1, <3>2, <3>3, <3>4, <3>5
  <2>6. unavailable' \subseteq ChannelIds /\ cut' \subseteq ChannelIds
    BY <1>0, <1>1, <2>1 DEF QueryChannel, TypeOK
  <2>7. channel' \in 1 .. Channels + 3
    BY <1>1, <2>1 DEF QueryChannel
  <2>8. QED
    BY <1>0, <1>1, <2>5, <2>6, <2>7 DEF TypeInv, TypeOK, AnswersGiven, NotMarkedYet, QueryChannel
<1>2. CASE EndEventLog
  <2>1. gathered' \in Seq(EventIds) /\ Len(gathered') \in Nat
    BY <1>0, <1>2, MergedType, Typing, CollectionAssumption DEF EndEventLog
  <2>2. EventLogStatus \in Statuses
    BY DEF EventLogStatus, Statuses
  <2>3. Note("EventLog", <<EventLogStatus, Len(gathered')>>) \in NoteSet
    BY <2>1, <2>2, NoteType
  <2>4. eventNotes' \in Seq(NoteSet)
    BY <1>2, <2>3 DEF EndEventLog
  <2>5. channel' \in 1 .. Channels + 3 /\ records' \in Seq(EventIds)
    <3>1. channel = Channels + 1 /\ channel' = channel + 1 /\ Channels \in Nat
      BY <1>2, CollectionAssumption DEF EndEventLog
    <3>2. channel' \in 1 .. Channels + 3
      BY <3>1
    <3>3. records' = <<>>
      BY <1>2 DEF EndEventLog
    <3>4. QED
      BY <3>2, <3>3
  <2>6. QED
    BY <1>0, <1>2, <2>1, <2>4, <2>5 DEF TypeInv, TypeOK, AnswersGiven, NotMarkedYet, EndEventLog
<1>3. CASE QueryReliability
  <2>1. Channels + 1 \in 1 .. Channels + 1 /\ log[Channels + 1] \subseteq EventIds
    BY <1>0, Typing
  <2>2. records' \in Seq(EventIds) /\ eventNotes' \in Seq(NoteSet)
    <3>1. ASSUME NEW set \in SUBSET log[Reliability], records' \in SortedRecords(set),
                 eventNotes' = Append(eventNotes, Note("ReliabilityMonitor", <<"complete", Len(records')>>))
          PROVE  records' \in Seq(EventIds) /\ eventNotes' \in Seq(NoteSet)
      <4>1. set \subseteq EventIds
        BY <2>1 DEF Reliability
      <4>2. IsFiniteSet(set)
        <5>1. 1 \in Int /\ Events \in Int
          BY CollectionAssumption
        <5>2. QED
          BY <4>1, <5>1, FS_Interval, FS_Subset DEF EventIds
      <4>3. Cardinality(set) \in Nat
        BY <4>2, FS_CardinalityType
      <4>4. records' \in [1 .. Cardinality(set) -> EventIds]
        BY <3>1, <4>1 DEF SortedRecords
      <4>5. records' \in Seq(EventIds) /\ Len(records') \in Nat
        BY <4>3, <4>4
      <4>6. Note("ReliabilityMonitor", <<"complete", Len(records')>>) \in NoteSet
        BY <4>5, NoteType DEF Statuses
      <4>7. eventNotes \in Seq(NoteSet)
        BY <1>0, Typing
      <4>8. QED
        BY <3>1, <4>5, <4>6, <4>7, AppendProperties
    <3>2. ASSUME NEW status \in {"partial", "failed"}, UNCHANGED records,
                 eventNotes' = Append(eventNotes, Note("ReliabilityMonitor", <<status, 0>>))
          PROVE  records' \in Seq(EventIds) /\ eventNotes' \in Seq(NoteSet)
      <4>1. Note("ReliabilityMonitor", <<status, 0>>) \in NoteSet
        BY NoteType DEF Statuses
      <4>2. eventNotes \in Seq(NoteSet) /\ records \in Seq(EventIds)
        BY <1>0, Typing
      <4>3. QED
        BY <3>2, <4>1, <4>2, AppendProperties
    <3>3. QED
      BY <1>3, <3>1, <3>2 DEF QueryReliability
  <2>3. channel' \in 1 .. Channels + 3
    <3>1. channel = Channels + 2 /\ channel' = channel + 1 /\ Channels \in Nat
      BY <1>3, CollectionAssumption DEF QueryReliability
    <3>2. QED
      BY <3>1
  <2>4. QED
    BY <1>0, <1>3, <2>2, <2>3 DEF TypeInv, TypeOK, AnswersGiven, NotMarkedYet, QueryReliability
<1>4. CASE EndEvents
  <2>1. gathered \o records \in Seq(EventIds)
    BY <1>0, Typing, ConcatProperties
  <2>2. gathered' \in Seq(EventIds) /\ Len(gathered') \in 0 .. Events
    BY <1>4, <2>1, MergedType DEF EndEvents
  <2>3. <<"complete", Len(gathered')>> \in Given("Events")
    BY <2>2 DEF Given
  <2>4. records' \in Seq(EventIds)
    BY <1>4 DEF EndEvents
  <2>5. /\ thread' \in [Threads -> {"unborn", "running", "returned", "panicked"}]
        /\ answer' \in [Threads -> (Statuses \cup {"none"}) \X Nat]
        /\ AnswersGiven'
    BY <1>0, <1>4, <2>3, ReturnType DEF EndEvents
  <2>6. QED
    BY <1>0, <1>4, <2>2, <2>4, <2>5 DEF TypeInv, TypeOK, NotMarkedYet, EndEvents
<1>5. CASE Panic("Events")
  BY <1>0, <1>5, PanicType
<1>6. QED
  BY <1>1, <1>2, <1>3, <1>4, <1>5 DEF EventsThread

LEMMA TypeStep == TypeInv /\ [Next]_vars => TypeInv'
<1> SUFFICES ASSUME TypeInv, [Next]_vars PROVE TypeInv'
  OBVIOUS
<1>1. CASE UNCHANGED vars
  BY <1>1 DEF vars, TypeInv, TypeOK, AnswersGiven, NotMarkedYet
<1>2. QED
  BY <1>1, CallerType, EventsType, ServicesType, PlainType DEF Next, Finished

LEMMA TypeInvariant == Spec => []TypeInv
BY TypeInit, TypeStep, PTL DEF Spec

(* Every variable of the scan keeps its type.                              *)
THEOREM TypeCorrect == Spec => []TypeOK
BY TypeInvariant, PTL DEF TypeInv

-----------------------------------------------------------------------------
(* The scan implements SequentialScan: all has been joined before the      *)
(* report is filled in, and what is joined next is the next provider's.    *)

JoinedInOrder == main \notin {"spawn", "join"} => Len(joined) = Len(Collectors)

LEMMA JoinedInOrderStep ==
  ASSUME TypeInv, JoinedInOrder, [Next]_vars
  PROVE  JoinedInOrder'
<1>1. CASE Caller
  BY <1>1 DEF Caller, Spawn, Join, FillReport, ReadDumps, Corroborate, Analyse, JoinedInOrder
<1>2. CASE EventsThread
  BY <1>2 DEF EventsThread, QueryChannel, EndEventLog, QueryReliability, EndEvents, Panic,
              JoinedInOrder
<1>3. CASE ServicesThread
  BY <1>3 DEF ServicesThread, CollectServices, Panic, JoinedInOrder
<1>4. CASE \E p \in Plain : PlainThread(p)
  BY <1>4 DEF PlainThread, Collect, Panic, JoinedInOrder
<1>5. CASE UNCHANGED vars
  BY <1>5 DEF vars, JoinedInOrder
<1>6. QED
  BY <1>1, <1>2, <1>3, <1>4, <1>5 DEF Next, Finished

LEMMA JoinedInvariant == Spec => [](TypeInv /\ JoinedInOrder)
<1>1. Init => JoinedInOrder
  BY DEF Init, JoinedInOrder
<1>2. QED
  BY <1>1, TypeInit, TypeStep, JoinedInOrderStep, PTL DEF Spec

LEMMA JoinAsks ==
  ASSUME TypeInv, Join
  PROVE  Sequential!Ask
<1> DEFINE p == Collectors[Len(joined) + 1]
           a == IF thread[p] = "panicked" THEN Failed(p) ELSE answer[p]
<1>1. p \in Threads
  <2>1. Len(joined) \in Nat /\ Len(joined) < 8
    BY Typing, ThreadsAre DEF TypeInv, Join
  <2>2. Len(joined) + 1 \in 1 .. 8
    BY <2>1
  <2>3. QED
    BY <2>2, ThreadsAre
<1>2. a \in Given(p) \cup {Failed(p)}
  BY <1>1 DEF TypeInv, AnswersGiven, Join
<1>3. joined' = Append(joined, a) /\ main = "join" /\ main' = main
  BY DEF Join
<1>4. Len(joined) < Len(Collectors)
  BY DEF Join
<1>5. a \in [q \in Threads |-> Given(q)][p] \cup {[q \in Threads |-> Failed(q)][p]}
  BY <1>1, <1>2
<1> HIDE DEF a
<1>6. QED
  BY <1>3, <1>4, <1>5 DEF Sequential!Ask

LEMMA StepRefines ==
  ASSUME TypeInv, JoinedInOrder, [Next]_vars
  PROVE  [Sequential!Next]_<<joined, IF main = "done" THEN "reported"
                                     ELSE IF main = "panicked" THEN "lost" ELSE "asking">>
<1>1. CASE Join
  BY <1>1, JoinAsks DEF Sequential!Next
<1>2. CASE Spawn \/ FillReport \/ Corroborate
  BY <1>2 DEF Spawn, FillReport, Corroborate
<1>3. CASE ReadDumps
  BY <1>3 DEF ReadDumps, JoinedInOrder, Sequential!Next, Sequential!Finish
<1>4. CASE Analyse
  BY <1>4 DEF Analyse, JoinedInOrder, Sequential!Next, Sequential!Finish
<1>5. CASE EventsThread
  BY <1>5 DEF EventsThread, QueryChannel, EndEventLog, QueryReliability, EndEvents, Panic
<1>6. CASE ServicesThread
  BY <1>6 DEF ServicesThread, CollectServices, Panic
<1>7. CASE \E p \in Plain : PlainThread(p)
  BY <1>7 DEF PlainThread, Collect, Panic
<1>8. CASE UNCHANGED vars
  BY <1>8 DEF vars
<1>9. QED
  BY <1>1, <1>2, <1>3, <1>4, <1>5, <1>6, <1>7, <1>8 DEF Next, Caller, Finished

(* Whatever the schedule and whichever threads panic, the scan is one that *)
(* asks the providers one after the other.                                 *)
THEOREM ScanIsSequential == Spec => ImplementsSequentialScan
<1>1. Init => Sequential!Init
  BY DEF Init, Sequential!Init
<1>2. QED
  BY <1>1, JoinedInvariant, StepRefines, PTL DEF Spec, ImplementsSequentialScan, Sequential!Spec

-----------------------------------------------------------------------------
(* No provider goes without a note.                                        *)

Ended(p) == thread[p] \in {"returned", "panicked"}

JoinedAnswers ==
  \A k \in DOMAIN joined :
    LET p == Collectors[k]
    IN  /\ Ended(p)
        /\ joined[k] = IF thread[p] = "panicked" THEN Failed(p) ELSE answer[p]

EventNotesInv ==
  /\ thread["Events"] = "returned" => channel = Channels + 3
  /\ channel = Channels + 2 => Len(eventNotes) = 1 /\ eventNotes[1].provider = "EventLog"
  /\ channel = Channels + 3 =>
       /\ Len(eventNotes) = 2
       /\ eventNotes[1].provider = "EventLog" /\ eventNotes[2].provider = "ReliabilityMonitor"

EventNoted == IF thread["Events"] = "panicked" THEN <<>> ELSE eventNotes

FirstNotes == [i \in 1 .. Len(Collectors) - 1 |-> Note(Collectors[i], joined[i])]

NotesInv ==
  /\ main = "spawn" => joined = <<>>
  /\ main = "dumps" => notes = FirstNotes \o EventNoted
  /\ main \in {"corroborate", "analyse", "done"} =>
       \E result \in Answers["CrashDumps"] :
         notes = Append(FirstNotes \o EventNoted, Note("CrashDumps", result))

GapInv == JoinedInOrder /\ JoinedAnswers /\ EventNotesInv /\ NotesInv

LEMMA GapInit == Init => GapInv
<1> SUFFICES ASSUME Init PROVE GapInv
  OBVIOUS
<1>1. "Events" \in Threads /\ Channels \in Nat \ {0}
  BY ThreadsAre, CollectionAssumption
<1>2. QED
  BY <1>1 DEF Init, GapInv, JoinedInOrder, JoinedAnswers, EventNotesInv, NotesInv

(* What has ended stays as it is.                                          *)
LEMMA EndedStays ==
  ASSUME TypeInv, [Next]_vars, main # "spawn", NEW p \in Threads, Ended(p)
  PROVE  /\ thread'[p] = thread[p] /\ answer'[p] = answer[p]
         /\ p = "Events" => eventNotes' = eventNotes
<1>0. /\ thread \in [Threads -> {"unborn", "running", "returned", "panicked"}]
      /\ answer \in [Threads -> (Statuses \cup {"none"}) \X Nat]
      /\ thread[p] # "running"
  BY Typing DEF TypeInv, Ended
<1>1. CASE Caller
  BY <1>0, <1>1 DEF Caller, Spawn, Join, FillReport, ReadDumps, Corroborate, Analyse
<1>2. CASE EventsThread
  BY <1>0, <1>2 DEF EventsThread, QueryChannel, EndEventLog, QueryReliability, EndEvents, Panic,
                    Return
<1>3. CASE ServicesThread
  BY <1>0, <1>3 DEF ServicesThread, CollectServices, Panic, Return
<1>4. CASE \E q \in Plain : PlainThread(q)
  BY <1>0, <1>4 DEF PlainThread, Collect, Panic, Return
<1>5. CASE UNCHANGED vars
  BY <1>5 DEF vars
<1>6. QED
  BY <1>1, <1>2, <1>3, <1>4, <1>5 DEF Next, Finished

LEMMA JoinedAnswersStep ==
  ASSUME TypeInv, GapInv, [Next]_vars
  PROVE  JoinedAnswers'
<1>0. /\ joined \in Seq(Statuses \X Nat) /\ DOMAIN joined = 1 .. Len(joined)
      /\ Len(joined) \in Nat /\ Len(joined) <= 8
  BY ThreadsAre, LenProperties DEF TypeInv, TypeOK
<1>1. ASSUME NEW k \in DOMAIN joined, main # "spawn"
      PROVE  LET p == Collectors[k]
             IN  /\ Ended(p)'
                 /\ joined[k] = IF thread'[p] = "panicked" THEN Failed(p) ELSE answer'[p]
  <2>1. k \in 1 .. 8
    <3>1. k \in 1 .. Len(joined) /\ Len(joined) \in Nat /\ Len(joined) <= 8
      BY <1>0
    <3>2. QED
      BY <3>1
  <2>2. Collectors[k] \in Threads /\ Ended(Collectors[k])
    BY <2>1, ThreadsAre DEF GapInv, JoinedAnswers
  <2>3. /\ thread'[Collectors[k]] = thread[Collectors[k]]
        /\ answer'[Collectors[k]] = answer[Collectors[k]]
    BY <1>1, <2>2, EndedStays
  <2>4. QED
    BY <2>2, <2>3 DEF GapInv, JoinedAnswers, Ended
<1>2. CASE main = "spawn"
  <2>1. joined = <<>>
    BY <1>2 DEF GapInv, NotesInv
  <2>2. joined' = <<>>
    BY <1>2, <2>1 DEF Next, Caller, Spawn, Join, FillReport, ReadDumps, Corroborate, Analyse,
       EventsThread, QueryChannel, EndEventLog, QueryReliability, EndEvents, ServicesThread,
       CollectServices, PlainThread, Collect, Panic, Finished, vars
  <2>3. QED
    BY <2>2 DEF JoinedAnswers
<1>3. CASE Join
  <2> DEFINE q == Collectors[Len(joined) + 1]
             a == IF thread[q] = "panicked" THEN Failed(q) ELSE answer[q]
  <2>1. main # "spawn" /\ thread' = thread /\ answer' = answer /\ joined' = Append(joined, a)
        /\ Ended(q) /\ UNCHANGED threadVars
    BY <1>3 DEF Join, Ended
  <2>2. DOMAIN joined' = 1 .. Len(joined) + 1
    BY <1>0, <2>1
  <2>3. ASSUME NEW k \in DOMAIN joined'
        PROVE  LET p == Collectors[k]
               IN  /\ Ended(p)'
                   /\ joined'[k] = IF thread'[p] = "panicked" THEN Failed(p) ELSE answer'[p]
    <3>1. CASE k = Len(joined) + 1
      <4>1. joined'[k] = a
        BY <1>0, <2>1, <3>1
      <4>2. QED
        BY <2>1, <3>1, <4>1 DEF Ended
    <3>2. CASE k # Len(joined) + 1
      <4>1. k \in DOMAIN joined /\ joined'[k] = joined[k]
        BY <1>0, <2>1, <2>2, <3>2
      <4>2. QED
        BY <1>1, <2>1, <4>1
    <3>3. QED
      BY <3>1, <3>2
  <2>4. QED
    BY <2>3 DEF JoinedAnswers
<1>4. CASE main # "spawn" /\ ~Join
  <2>1. joined' = joined
    BY <1>4 DEF Next, Caller, Spawn, FillReport, ReadDumps, Corroborate, Analyse,
       EventsThread, QueryChannel, EndEventLog, QueryReliability, EndEvents, ServicesThread,
       CollectServices, PlainThread, Collect, Panic, Finished, vars
  <2>2. QED
    BY <1>1, <1>4, <2>1 DEF JoinedAnswers
<1>5. QED
  BY <1>2, <1>3, <1>4

LEMMA EventNotesStep ==
  ASSUME TypeInv, GapInv, [Next]_vars
  PROVE  EventNotesInv'
<1>0. /\ thread \in [Threads -> {"unborn", "running", "returned", "panicked"}]
      /\ Channels \in Nat \ {0} /\ channel \in 1 .. Channels + 3 /\ "Events" \in Threads
      /\ eventNotes \in Seq(NoteSet)
  BY Typing, ThreadsAre DEF TypeInv
<1>1. CASE Caller
  <2>1. UNCHANGED <<channel, eventNotes>>
    BY <1>1 DEF Caller, Spawn, Join, FillReport, ReadDumps, Corroborate, Analyse
  <2>2. thread'["Events"] \in {thread["Events"], "running"}
    BY <1>0, <1>1 DEF Caller, Spawn, Join, FillReport, ReadDumps, Corroborate, Analyse
  <2>3. QED
    BY <2>1, <2>2 DEF GapInv, EventNotesInv
<1>2. CASE QueryChannel
  BY <1>0, <1>2 DEF QueryChannel, GapInv, EventNotesInv
<1>3. CASE EndEventLog
  <2>1. eventNotes'[1].provider = "EventLog" /\ Len(eventNotes') = 1
    BY <1>3 DEF EndEventLog, Note
  <2>2. QED
    BY <1>0, <1>3, <2>1 DEF EndEventLog, GapInv, EventNotesInv
<1>4. CASE QueryReliability
  <2>1. Len(eventNotes) = 1 /\ eventNotes[1].provider = "EventLog"
    BY <1>4 DEF QueryReliability, GapInv, EventNotesInv
  <2>2. PICK result : eventNotes' = Append(eventNotes, Note("ReliabilityMonitor", result))
    BY <1>4 DEF QueryReliability
  <2> DEFINE new == Note("ReliabilityMonitor", result)
  <2>5. eventNotes \in Seq(NoteSet \cup {new})
    BY <1>0
  <2>6. eventNotes' = Append(eventNotes, new) /\ new \in NoteSet \cup {new}
    BY <2>2
  <2>3. /\ Len(eventNotes') = 2
        /\ eventNotes'[1] = eventNotes[1]
        /\ eventNotes'[2] = Note("ReliabilityMonitor", result)
    <3> HIDE DEF new
    <3>1. /\ Len(eventNotes') = 1 + 1 /\ \A i \in 1 .. 1 : eventNotes'[i] = eventNotes[i]
          /\ eventNotes'[1 + 1] = new
      BY <2>1, <2>5, <2>6, AppendAt
    <3>2. QED
      BY <3>1 DEF new
  <2>4. QED
    BY <1>0, <1>4, <2>1, <2>3 DEF QueryReliability, GapInv, EventNotesInv, Note
<1>5. CASE EndEvents
  BY <1>0, <1>5 DEF EndEvents, Return, GapInv, EventNotesInv
<1>6. CASE Panic("Events")
  BY <1>0, <1>6 DEF Panic, GapInv, EventNotesInv
<1>7. CASE ServicesThread
  BY <1>0, <1>7 DEF ServicesThread, CollectServices, Panic, Return, GapInv, EventNotesInv
<1>8. CASE \E p \in Plain : PlainThread(p)
  BY <1>0, <1>8 DEF PlainThread, Collect, Panic, Return, Plain, GapInv, EventNotesInv
<1>9. CASE UNCHANGED vars
  BY <1>9 DEF vars, GapInv, EventNotesInv
<1>10. QED
  BY <1>1, <1>2, <1>3, <1>4, <1>5, <1>6, <1>7, <1>8, <1>9 DEF Next, EventsThread, Finished

(* Once everything is joined the events thread has returned.               *)
LEMMA AllEnded ==
  ASSUME TypeInv, GapInv, Len(joined) = Len(Collectors)
  PROVE  \A k \in 1 .. 8 : Ended(Collectors[k]) /\ k \in DOMAIN joined
<1>1. joined \in Seq(Statuses \X Nat) /\ Len(joined) = 8
  BY ThreadsAre, Typing DEF TypeInv
<1>2. DOMAIN joined = 1 .. 8
  BY <1>1, LenProperties
<1>3. QED
  BY <1>2 DEF GapInv, JoinedAnswers

LEMMA NotesStep ==
  ASSUME TypeInv, GapInv, [Next]_vars
  PROVE  NotesInv'
<1>1. CASE main \in {"dumps", "corroborate", "analyse", "done", "panicked"} /\ ~Caller
  <2>1. UNCHANGED <<main, joined, notes>>
    BY <1>1 DEF Next, EventsThread, QueryChannel, EndEventLog, QueryReliability, EndEvents,
       ServicesThread, CollectServices, PlainThread, Collect, Panic, Finished, vars
  <2>2. Ended("Events") /\ "Events" \in Threads
    <3>1. Collectors[8] = "Events"
      BY DEF Collectors
    <3>2. QED
      BY <1>1, <3>1, AllEnded, ThreadsAre DEF GapInv, JoinedInOrder
  <2>3. EventNoted' = EventNoted
    BY <1>1, <2>2, EndedStays DEF EventNoted
  <2>4. FirstNotes' = FirstNotes
    BY <2>1 DEF FirstNotes
  <2>5. QED
    BY <1>1, <2>1, <2>3, <2>4 DEF GapInv, NotesInv
<1>2. CASE main \in {"spawn", "join"} /\ ~Caller
  BY <1>2 DEF Next, EventsThread, QueryChannel, EndEventLog, QueryReliability, EndEvents,
     ServicesThread, CollectServices, PlainThread, Collect, Panic, Finished, vars, GapInv, NotesInv
<1>3. CASE Spawn \/ Join
  BY <1>3 DEF Spawn, Join, NotesInv
<1>4. CASE FillReport
  <2>1. /\ notes' = FirstNotes \o EventNoted
        /\ UNCHANGED <<joined, thread, eventNotes>> /\ main' = "dumps"
    BY <1>4 DEF FillReport, FirstNotes, EventNoted
  <2>2. QED
    BY <2>1 DEF NotesInv, FirstNotes, EventNoted
<1>5. CASE ReadDumps
  <2>1. notes = FirstNotes \o EventNoted /\ UNCHANGED <<joined, thread, eventNotes>>
    BY <1>5 DEF ReadDumps, GapInv, NotesInv
  <2>2. FirstNotes' = FirstNotes /\ EventNoted' = EventNoted
    BY <2>1 DEF FirstNotes, EventNoted
  <2>3. QED
    BY <1>5, <2>1, <2>2 DEF ReadDumps, NotesInv
<1>6. CASE Corroborate \/ Analyse
  <2>1. UNCHANGED <<joined, thread, eventNotes, notes>> /\ main \in {"corroborate", "analyse"}
        /\ main' \in {"analyse", "done", "panicked"}
    BY <1>6 DEF Corroborate, Analyse
  <2>2. FirstNotes' = FirstNotes /\ EventNoted' = EventNoted
    BY <2>1 DEF FirstNotes, EventNoted
  <2>3. QED
    BY <2>1, <2>2 DEF GapInv, NotesInv
<1>7. QED
  BY <1>1, <1>2, <1>3, <1>4, <1>5, <1>6 DEF Caller, TypeInv, TypeOK

LEMMA GapInvariant == Spec => [](TypeInv /\ GapInv)
<1>1. Init => TypeInv /\ GapInv
  BY TypeInit, GapInit
<1>2. TypeInv /\ GapInv /\ [Next]_vars => (TypeInv /\ GapInv)'
  BY TypeStep, JoinedInOrderStep, JoinedAnswersStep, EventNotesStep, NotesStep DEF GapInv
<1>3. QED
  BY <1>1, <1>2, PTL DEF Spec

(* The notes of a finished report, one by one.                             *)
LEMMA NotesAre ==
  ASSUME TypeInv, GapInv, main = "done"
  PROVE  /\ EventNoted \in Seq(NoteSet) /\ Len(EventNoted) \in Nat
         /\ DOMAIN notes = 1 .. 8 + Len(EventNoted)
         /\ \A i \in 1 .. 7 : notes[i] = Note(Collectors[i], joined[i])
         /\ \A j \in 1 .. Len(EventNoted) : notes[7 + j] = EventNoted[j]
         /\ notes[8 + Len(EventNoted)].provider = "CrashDumps"
<1> DEFINE middle == EventNoted
           n == Len(middle)
<1>1. Len(joined) = Len(Collectors)
  BY DEF GapInv, JoinedInOrder
<1>2. eventNotes \in Seq(NoteSet) /\ joined \in Seq(Statuses \X Nat)
  BY Typing DEF TypeInv
<1>3. middle \in Seq(NoteSet) /\ n \in Nat
  BY <1>2, LenProperties, EmptySeq DEF EventNoted
<1>4. PICK result \in Answers["CrashDumps"] :
        notes = Append(FirstNotes \o middle, Note("CrashDumps", result))
  BY DEF GapInv, NotesInv
<1>5. /\ DOMAIN FirstNotes = 1 .. 7
      /\ \A i \in 1 .. 7 : FirstNotes[i] = Note(Collectors[i], joined[i])
  BY ThreadsAre DEF FirstNotes
<1>6. FirstNotes \in Seq(NoteSet)
  <2>1. ASSUME NEW i \in 1 .. 7 PROVE FirstNotes[i] \in NoteSet
    <3>1. i \in 1 .. 8 /\ joined \in [1 .. Len(joined) -> Statuses \X Nat]
      BY <1>2
    <3>2. joined[i] \in Statuses \X Nat /\ Collectors[i] \in Threads
      BY <1>1, <3>1, ThreadsAre
    <3>3. QED
      BY <1>5, <3>2, NoteType
  <2>2. FirstNotes = [i \in 1 .. 7 |-> FirstNotes[i]]
    BY <1>5, ThreadsAre DEF FirstNotes
  <2>3. FirstNotes \in [1 .. 7 -> NoteSet]
    BY <2>1, <2>2
  <2>4. QED
    BY <2>3, FunctionIsSeq
<1>7. Len(FirstNotes) = 7
  BY <1>5, <1>6, LenProperties
<1> DEFINE front == FirstNotes \o middle
           new == Note("CrashDumps", result)
<1>8. /\ front \in Seq(NoteSet)
      /\ Len(front) = 7 + n
      /\ \A i \in 1 .. 7 + n : front[i] = IF i <= 7 THEN FirstNotes[i] ELSE middle[i - 7]
  <2> HIDE DEF middle
  <2>1. /\ FirstNotes \o middle \in Seq(NoteSet)
        /\ Len(FirstNotes \o middle) = Len(FirstNotes) + Len(middle)
        /\ \A i \in 1 .. Len(FirstNotes) + Len(middle) :
             (FirstNotes \o middle)[i] =
               IF i <= Len(FirstNotes) THEN FirstNotes[i] ELSE middle[i - Len(FirstNotes)]
    BY <1>3, <1>6, ConcatProperties
  <2>2. QED
    BY <1>7, <2>1
<1>9. new \in NoteSet
  <2>1. result \in Statuses \X Nat
    BY CollectionAssumption DEF Providers
  <2>2. QED
    BY <2>1, NoteType
<1>10. notes = Append(front, new)
  BY <1>4
<1>11. new.provider = "CrashDumps"
  BY DEF Note
<1>12. \A i \in 1 .. 7 : FirstNotes[i] = Note(Collectors[i], joined[i])
  BY <1>5
<1> HIDE DEF front, new, middle, n
<1>13. /\ DOMAIN notes = 1 .. 8 + n
       /\ \A i \in 1 .. 7 + n : notes[i] = front[i]
       /\ notes[8 + n] = new
  <2>1. Append(front, new) \in Seq(NoteSet) /\ Len(Append(front, new)) = Len(front) + 1
    BY <1>8, <1>9, AppendProperties
  <2>2. \A i \in 1 .. Len(front) : Append(front, new)[i] = front[i]
    BY <1>8, <1>9, AppendProperties
  <2>3. Append(front, new)[Len(front) + 1] = new
    BY <1>8, <1>9, AppendProperties
  <2>4. Len(front) + 1 = 8 + n
    BY <1>3, <1>8
  <2>5. DOMAIN notes = 1 .. 8 + n
    BY <1>10, <2>1, <2>4, LenProperties
  <2>6. \A i \in 1 .. 7 + n : notes[i] = front[i]
    BY <1>8, <1>10, <2>2
  <2>7. notes[8 + n] = new
    BY <1>10, <2>3, <2>4
  <2>8. QED
    BY <2>5, <2>6, <2>7
<1>14. \A i \in 1 .. 7 : notes[i] = FirstNotes[i]
  BY <1>3, <1>8, <1>13
<1>15. \A j \in 1 .. n : notes[7 + j] = middle[j]
  <2> TAKE j \in 1 .. n
  <2>1. 7 + j \in 1 .. 7 + n /\ ~(7 + j <= 7) /\ 7 + j - 7 = j
    BY <1>3
  <2>2. notes[7 + j] = front[7 + j] /\ front[7 + j] = middle[7 + j - 7]
    BY <1>8, <1>13, <2>1
  <2>3. QED
    BY <2>1, <2>2
<1>16. QED
  BY <1>3, <1>11, <1>12, <1>13, <1>14, <1>15 DEF middle, n

(* Which notes are whose.                                                  *)
LEMMA FirstAre ==
  ASSUME TypeInv, GapInv, main = "done"
  PROVE  \A k \in 1 .. 7 : k \in DOMAIN notes /\ notes[k].provider = Collectors[k]
<1>1. Len(EventNoted) \in Nat /\ DOMAIN notes = 1 .. 8 + Len(EventNoted)
  BY NotesAre
<1>2. \A k \in 1 .. 7 : notes[k].provider = Collectors[k]
  BY NotesAre DEF Note
<1>3. QED
  BY <1>1, <1>2

LEMMA EventNotedIs ==
  ASSUME TypeInv, GapInv, main = "done"
  PROVE  \/ thread["Events"] = "panicked" /\ Len(EventNoted) = 0
         \/ /\ thread["Events"] = "returned" /\ Len(EventNoted) = 2
            /\ EventNoted[1].provider = "EventLog"
            /\ EventNoted[2].provider = "ReliabilityMonitor"
<1>1. Ended("Events")
  BY AllEnded DEF GapInv, JoinedInOrder, Collectors
<1>2. CASE thread["Events"] = "panicked"
  BY <1>2, EmptySeq DEF EventNoted
<1>3. CASE thread["Events"] = "returned"
  BY <1>3 DEF EventNoted, GapInv, EventNotesInv
<1>4. QED
  BY <1>1, <1>2, <1>3 DEF Ended

LEMMA NotesOfAre ==
  ASSUME TypeInv, GapInv, main = "done"
  PROVE  /\ \A k \in 1 .. 7 : NotesOf(Collectors[k]) = {k}
         /\ NotesOf("CrashDumps") = {8 + Len(EventNoted)}
         /\ thread["Events"] = "returned" =>
              NotesOf("EventLog") = {8} /\ NotesOf("ReliabilityMonitor") = {9}
<1>1. /\ notes[1].provider = "SystemInventory" /\ notes[2].provider = "Firmware"
      /\ notes[3].provider = "SecurityPosture" /\ notes[4].provider = "Drivers"
      /\ notes[5].provider = "Devices" /\ notes[6].provider = "Services"
      /\ notes[7].provider = "Changes"
  BY FirstAre DEF Collectors
<1>2. /\ Collectors[1] = "SystemInventory" /\ Collectors[2] = "Firmware"
      /\ Collectors[3] = "SecurityPosture" /\ Collectors[4] = "Drivers"
      /\ Collectors[5] = "Devices" /\ Collectors[6] = "Services" /\ Collectors[7] = "Changes"
  BY DEF Collectors
<1>3. CASE thread["Events"] = "panicked"
  <2>1. DOMAIN notes = 1 .. 8 /\ notes[8].provider = "CrashDumps" /\ Len(EventNoted) = 0
    BY <1>3, EventNotedIs, NotesAre
  <2>2. \A k \in 1 .. 8 :
          k = 1 \/ k = 2 \/ k = 3 \/ k = 4 \/ k = 5 \/ k = 6 \/ k = 7 \/ k = 8
    OBVIOUS
  <2>3. /\ NotesOf("SystemInventory") = {1} /\ NotesOf("Firmware") = {2}
        /\ NotesOf("SecurityPosture") = {3} /\ NotesOf("Drivers") = {4}
        /\ NotesOf("Devices") = {5} /\ NotesOf("Services") = {6} /\ NotesOf("Changes") = {7}
        /\ NotesOf("CrashDumps") = {8}
    BY <1>1, <2>1, <2>2 DEF NotesOf
  <2>4. QED
    BY <1>2, <1>3, <2>1, <2>3
<1>4. CASE thread["Events"] = "returned"
  <2>1. /\ Len(EventNoted) = 2 /\ DOMAIN notes = 1 .. 10
        /\ notes[10].provider = "CrashDumps"
    <3>1. Len(EventNoted) = 2
      BY <1>4, EventNotedIs
    <3>2. DOMAIN notes = 1 .. 8 + 2 /\ notes[8 + 2].provider = "CrashDumps"
      BY <3>1, NotesAre
    <3>3. 8 + 2 = 10
      OBVIOUS
    <3>4. QED
      BY <3>1, <3>2, <3>3
  <2>2. \A j \in 1 .. 2 : notes[7 + j] = EventNoted[j]
    BY <2>1, NotesAre
  <2>3. notes[7 + 1] = EventNoted[1] /\ notes[7 + 2] = EventNoted[2]
    BY <2>2
  <2>4. notes[8].provider = "EventLog" /\ notes[9].provider = "ReliabilityMonitor"
    BY <1>4, <2>3, EventNotedIs
  <2>5. \A k \in 1 .. 10 : k = 1 \/ k = 2 \/ k = 3 \/ k = 4 \/ k = 5 \/ k = 6 \/ k = 7
                           \/ k = 8 \/ k = 9 \/ k = 10
    OBVIOUS
  <2>6. /\ NotesOf("SystemInventory") = {1} /\ NotesOf("Firmware") = {2}
        /\ NotesOf("SecurityPosture") = {3} /\ NotesOf("Drivers") = {4}
        /\ NotesOf("Devices") = {5} /\ NotesOf("Services") = {6} /\ NotesOf("Changes") = {7}
        /\ NotesOf("EventLog") = {8} /\ NotesOf("ReliabilityMonitor") = {9}
        /\ NotesOf("CrashDumps") = {10}
    BY <1>1, <2>1, <2>4, <2>5 DEF NotesOf
  <2>7. QED
    BY <1>2, <2>1, <2>6
<1>5. QED
  BY <1>3, <1>4, EventNotedIs

(* Every provider has exactly one note, which is a failure when its thread *)
(* panicked; the event providers have none only when theirs did.           *)
THEOREM EveryProviderIsNoted == Spec => []NoSilentGap
<1>1. ASSUME TypeInv, GapInv, main = "done"
      PROVE  /\ \A p \in Threads \ {"Events"} :
                  /\ Cardinality(NotesOf(p)) = 1
                  /\ \A k \in NotesOf(p) :
                       IF thread[p] = "panicked" THEN notes[k].status = "failed"
                       ELSE <<notes[k].status, notes[k].items>> = answer[p]
             /\ Cardinality(NotesOf("CrashDumps")) = 1
             /\ thread["Events"] = "returned" => EventsNoted
  <2>1. \A x : Cardinality({x}) = 1
    BY FS_Singleton
  <2>2. ASSUME NEW k \in 1 .. 7
        PROVE  IF thread[Collectors[k]] = "panicked" THEN notes[k].status = "failed"
               ELSE <<notes[k].status, notes[k].items>> = answer[Collectors[k]]
    <3>1. k \in 1 .. 8
      OBVIOUS
    <3>2. Len(joined) = Len(Collectors)
      BY <1>1 DEF GapInv, JoinedInOrder
    <3>3. k \in DOMAIN joined /\ Collectors[k] \in Threads
      BY <1>1, <3>1, <3>2, AllEnded, ThreadsAre
    <3>4. joined[k] = IF thread[Collectors[k]] = "panicked" THEN Failed(Collectors[k])
                      ELSE answer[Collectors[k]]
      BY <1>1, <3>3 DEF GapInv, JoinedAnswers
    <3>5. answer[Collectors[k]] \in (Statuses \cup {"none"}) \X Nat
      BY <1>1, <3>3, Typing DEF TypeInv
    <3>6. notes[k].status = joined[k][1] /\ notes[k].items = joined[k][2]
      BY <1>1, NotesAre DEF Note
    <3>7. QED
      BY <3>4, <3>5, <3>6 DEF Failed
  <2>3. ASSUME NEW p \in Threads \ {"Events"}
        PROVE  \E k \in 1 .. 7 : p = Collectors[k] /\ NotesOf(p) = {k}
    <3>1. \E k \in 1 .. 7 : p = Collectors[k]
      BY DEF Threads, Collectors
    <3>2. QED
      BY <1>1, <3>1, NotesOfAre
  <2>4. ASSUME NEW p \in Threads \ {"Events"}
        PROVE  /\ Cardinality(NotesOf(p)) = 1
               /\ \A k \in NotesOf(p) :
                    IF thread[p] = "panicked" THEN notes[k].status = "failed"
                    ELSE <<notes[k].status, notes[k].items>> = answer[p]
    <3>1. PICK k \in 1 .. 7 : p = Collectors[k] /\ NotesOf(p) = {k}
      BY <2>3
    <3>2. QED
      BY <2>1, <2>2, <3>1
  <2>5. Cardinality(NotesOf("CrashDumps")) = 1
    BY <1>1, <2>1, NotesOfAre
  <2>6. thread["Events"] = "returned" => EventsNoted
    BY <1>1, <2>1, NotesOfAre DEF EventsNoted
  <2>7. QED
    BY <2>4, <2>5, <2>6
<1>2. TypeInv /\ GapInv => NoSilentGap
  BY <1>1 DEF NoSilentGap
<1>3. QED
  BY <1>2, GapInvariant, PTL

-----------------------------------------------------------------------------
(* The timeline.                                                           *)

Queried == {c \in ChannelIds : c < channel}

(* Nothing in seq is invented or beyond a cap ...                          *)
FromLogs(seq) ==
  \A k \in DOMAIN seq :
    seq[k] \in log[Reliability] \cup UNION {Wanted(c) : c \in Queried \ unavailable}

(* ... and it stands for all that was wanted of what was read in full.     *)
StandsForAll(seq) ==
  \A c \in Queried \ (unavailable \cup cut) : \A e \in Wanted(c) :
    \E k \in DOMAIN seq : Key[seq[k]] = Key[e]

InOrder(seq) ==
  \A j, k \in DOMAIN seq :
    j < k => Time[seq[j]] <= Time[seq[k]] /\ Key[seq[j]] # Key[seq[k]]

EventsInv ==
  /\ unavailable \cup cut \subseteq Queried
  /\ FromLogs(records) /\ FromLogs(gathered)
  /\ channel <= Channels + 1 => StandsForAll(records)
  /\ channel > Channels + 1 => StandsForAll(gathered)
  /\ thread["Events"] = "returned" => InOrder(gathered)

TimelineInv ==
  /\ main \in {"dumps", "corroborate", "analyse", "done"} /\ thread["Events"] = "returned"
       => timeline = gathered
  /\ main \in {"analyse", "done"} =>
       marked = {i \in DOMAIN problems :
                   \E k \in DOMAIN timeline : problems[i] \in Mentions[timeline[k]]}

(* A set of indices that is not empty has a first one.                     *)
LEMMA FirstIndex ==
  ASSUME NEW S \in SUBSET Nat, S # {}
  PROVE  \E m \in S : \A i \in S : m <= i
<1>1. PICK m \in S : \A i \in S : <<i, m>> \notin OpToRel(<, Nat)
  BY WFMin, NatLessThanWellFounded, Zenon
<1>2. ASSUME NEW i \in S PROVE m <= i
  <2>1. m \in Nat /\ i \in Nat
    BY <1>1
  <2>2. ~(i < m)
    BY <1>1, <2>1, Zenon DEF OpToRel
  <2>3. QED
    BY <2>1, <2>2
<1>3. QED
  BY <1>1, <1>2

LEMMA EventSetsAreFinite ==
  ASSUME NEW set \in SUBSET EventIds
  PROVE  IsFiniteSet(set) /\ Cardinality(set) \in Nat /\ set \in SUBSET Nat
<1>1. 1 \in Int /\ Events \in Int
  BY CollectionAssumption
<1>2. IsFiniteSet(EventIds)
  BY <1>1, FS_Interval DEF EventIds
<1>3. IsFiniteSet(set)
  BY <1>2, FS_Subset
<1>4. QED
  BY <1>3, FS_CardinalityType, CollectionAssumption DEF EventIds

(* What a merge keeps, whatever it is given: one record of every key, in   *)
(* order of time.                                                          *)
LEMMA MergedKeeps ==
  ASSUME NEW seq \in Seq(EventIds), NEW merged \in Merged(seq)
  PROVE  /\ InOrder(merged)
         /\ \A k \in DOMAIN merged : \E i \in DOMAIN seq : merged[k] = seq[i]
         /\ \A i \in DOMAIN seq : \E k \in DOMAIN merged : Key[merged[k]] = Key[seq[i]]
<1> DEFINE n == Cardinality(Kept(seq))
<1>1. DOMAIN seq = 1 .. Len(seq) /\ Len(seq) \in Nat /\ \A i \in DOMAIN seq : seq[i] \in EventIds
  OBVIOUS
<1>2. Kept(seq) \subseteq DOMAIN seq /\ IsFiniteSet(Kept(seq)) /\ n \in Nat
  <2>1. 1 \in Int /\ Len(seq) \in Int
    BY <1>1
  <2>2. IsFiniteSet(DOMAIN seq)
    BY <1>1, <2>1, FS_Interval
  <2>3. Kept(seq) \subseteq DOMAIN seq
    BY DEF Kept
  <2>4. QED
    BY <2>2, <2>3, FS_Subset, FS_CardinalityType
<1>3. PICK order \in MergeOrders(seq) : merged = [k \in DOMAIN order |-> seq[order[k]]]
  BY DEF Merged
<1>4. /\ order \in [1 .. n -> Kept(seq)] /\ DOMAIN merged = 1 .. n
      /\ \A k \in 1 .. n : /\ order[k] \in Kept(seq) /\ order[k] \in Nat
                           /\ merged[k] = seq[order[k]] /\ Time[merged[k]] \in Nat
      /\ \A k, l \in 1 .. n :
           k < l => \/ Time[merged[k]] < Time[merged[l]]
                    \/ Time[merged[k]] = Time[merged[l]] /\ order[k] < order[l]
  <2>1. order \in [1 .. n -> Kept(seq)] /\ DOMAIN order = 1 .. n
    BY <1>3 DEF MergeOrders
  <2>2. \A k, l \in 1 .. n :
           k < l => \/ Time[seq[order[k]]] < Time[seq[order[l]]]
                    \/ Time[seq[order[k]]] = Time[seq[order[l]]] /\ order[k] < order[l]
    BY <1>3, <2>1 DEF MergeOrders
  <2> HIDE DEF n
  <2>3. ASSUME NEW k \in 1 .. n
        PROVE  /\ order[k] \in Kept(seq) /\ order[k] \in Nat
               /\ merged[k] = seq[order[k]] /\ Time[merged[k]] \in Nat
    <3>1. order[k] \in Kept(seq) /\ merged[k] = seq[order[k]]
      BY <1>3, <2>1
    <3>2. order[k] \in DOMAIN seq /\ order[k] \in Nat
      BY <1>1, <1>2, <3>1
    <3>3. merged[k] \in EventIds
      BY <1>1, <3>1, <3>2
    <3>4. QED
      BY <3>1, <3>2, <3>3, CollectionAssumption
  <2>4. DOMAIN merged = 1 .. n
    BY <1>3, <2>1
  <2>5. QED
    BY <2>1, <2>2, <2>3, <2>4
<1>5. ASSUME NEW i \in Kept(seq), NEW j \in Kept(seq), i # j
      PROVE  Key[seq[i]] # Key[seq[j]]
  <2>1. i \in Nat /\ j \in Nat /\ i >= 1 /\ j >= 1
    BY <1>1, <1>2
  <2>2. i \in 1 .. j - 1 \/ j \in 1 .. i - 1
    BY <1>5, <2>1
  <2>3. QED
    BY <2>2 DEF Kept
<1> HIDE DEF n
<1>6. ASSUME NEW k \in 1 .. n, NEW l \in 1 .. n, k < l
      PROVE  order[k] # order[l]
  BY <1>4, <1>6
<1>7. InOrder(merged)
  <2>1. ASSUME NEW k \in 1 .. n, NEW l \in 1 .. n, k < l
        PROVE  Time[merged[k]] <= Time[merged[l]] /\ Key[merged[k]] # Key[merged[l]]
    <3>1. Time[merged[k]] <= Time[merged[l]]
      BY <1>4, <2>1
    <3>2. Key[merged[k]] # Key[merged[l]]
      BY <1>4, <1>5, <1>6, <2>1
    <3>3. QED
      BY <3>1, <3>2
  <2>2. QED
    BY <1>4, <2>1 DEF InOrder
<1>8. \A i \in Kept(seq) : \E k \in 1 .. n : order[k] = i
  <2>1. \A k, l \in 1 .. n : order[k] = order[l] => k = l
    <3>1. \A k, l \in 1 .. n : k < l \/ l < k \/ k = l
      OBVIOUS
    <3>2. QED
      BY <1>6, <3>1
  <2>2. order \in Injection(1 .. n, Kept(seq))
    BY <1>4, <2>1, Fun_IsInj
  <2>3. Cardinality(1 .. n) = n
    <3>1. 1 \in Int /\ n \in Int
      BY <1>2 DEF n
    <3>2. Cardinality(1 .. n) = IF 1 > n THEN 0 ELSE n - 1 + 1
      BY <3>1, FS_Interval
    <3>3. QED
      BY <1>2, <3>2 DEF n
  <2>4. order \in Surjection(1 .. n, Kept(seq))
    BY <1>2, <2>2, <2>3, FS_Injection DEF n
  <2>5. QED
    BY <2>4 DEF Surjection
<1>9. ASSUME NEW i \in DOMAIN seq
      PROVE  \E k \in 1 .. n : Key[merged[k]] = Key[seq[i]]
  <2> DEFINE same == {j \in DOMAIN seq : Key[seq[j]] = Key[seq[i]]}
  <2>1. same \in SUBSET Nat /\ same # {}
    BY <1>1
  <2>2. PICK m \in same : \A j \in same : m <= j
    BY <2>1, FirstIndex
  <2>3. m \in DOMAIN seq /\ m \in Nat /\ m <= Len(seq) /\ Key[seq[m]] = Key[seq[i]]
    BY <1>1, <2>2
  <2>4. \A j \in 1 .. m - 1 : j \in DOMAIN seq /\ ~ (m <= j)
    BY <1>1, <2>3
  <2>5. m \in Kept(seq)
    BY <2>2, <2>3, <2>4 DEF Kept
  <2>6. QED
    BY <1>4, <1>8, <2>3, <2>5
<1>10. \A k \in 1 .. n : \E i \in DOMAIN seq : merged[k] = seq[i]
  BY <1>2, <1>4
<1>11. QED
  BY <1>4, <1>7, <1>9, <1>10

(* What a query returns: none of its n records has n newer ones, and each  *)
(* record it leaves has.                                                   *)
LEMMA NewestReads ==
  ASSUME NEW set \in SUBSET EventIds, NEW n \in Nat, NEW read \in Newest(set, n)
  PROVE  /\ read \in [1 .. n -> set]
         /\ \A k \in 1 .. n : Cardinality({f \in set : f > read[k]}) < n
         /\ \A e \in set : (\E k \in 1 .. n : read[k] = e) \/ Cardinality({f \in set : f > e}) >= n
<1>1. /\ read \in [1 .. n -> set] /\ DOMAIN read = 1 .. n
      /\ \A j, k \in 1 .. n : j < k => read[j] > read[k]
      /\ \A e \in set : (\E k \in 1 .. n : read[k] = e) \/ \A k \in 1 .. n : e < read[k]
  BY DEF Newest
<1>2. set \subseteq Nat /\ \A k \in 1 .. n : read[k] \in set /\ read[k] \in Nat
  BY <1>1, EventSetsAreFinite
<1>3. \A e \in set : IsFiniteSet({f \in set : f > e}) /\ Cardinality({f \in set : f > e}) \in Nat
  <2> SUFFICES ASSUME NEW e \in set
               PROVE  /\ IsFiniteSet({f \in set : f > e})
                      /\ Cardinality({f \in set : f > e}) \in Nat
    OBVIOUS
  <2>1. {f \in set : f > e} \in SUBSET EventIds
    OBVIOUS
  <2>2. QED
    BY <2>1, EventSetsAreFinite
<1>4. ASSUME NEW m \in Nat
      PROVE  IsFiniteSet(1 .. m) /\ Cardinality(1 .. m) = m
  <2>1. 1 \in Int /\ m \in Int
    OBVIOUS
  <2>2. IsFiniteSet(1 .. m) /\ Cardinality(1 .. m) = IF 1 > m THEN 0 ELSE m - 1 + 1
    BY <2>1, FS_Interval
  <2>3. QED
    BY <2>2
<1>5. ASSUME NEW k \in 1 .. n
      PROVE  Cardinality({f \in set : f > read[k]}) < n
  <2> DEFINE newer == {f \in set : f > read[k]}
             at == [f \in newer |-> CHOOSE j \in 1 .. n : read[j] = f]
  <2>1. ASSUME NEW f \in newer
        PROVE  at[f] \in 1 .. k - 1 /\ read[at[f]] = f
    <3>1. f \in set /\ f > read[k] /\ f \in Nat /\ read[k] \in Nat
      BY <1>2
    <3>2. \E j \in 1 .. n : read[j] = f
      BY <1>1, <1>2, <3>1
    <3>3. at[f] \in 1 .. n /\ read[at[f]] = f
      BY <3>2
    <3>4. at[f] # k /\ ~ (k < at[f])
      BY <1>1, <1>2, <3>1, <3>3
    <3>5. QED
      BY <3>3, <3>4
  <2> HIDE DEF at
  <2>2. at \in [newer -> 1 .. k - 1]
    BY <2>1 DEF at
  <2>3. \A f, g \in newer : at[f] = at[g] => f = g
    BY <2>1
  <2>4. at \in Injection(newer, 1 .. k - 1)
    BY <2>2, <2>3, Fun_IsInj
  <2>5. k - 1 \in Nat /\ k - 1 < n
    OBVIOUS
  <2>6. Cardinality(newer) <= k - 1
    BY <1>4, <2>4, <2>5, FS_Injection
  <2>7. Cardinality(newer) \in Nat
    BY <1>2, <1>3
  <2> HIDE DEF newer
  <2>8. Cardinality(newer) < n
    BY <2>5, <2>6, <2>7
  <2>9. QED
    BY <2>8 DEF newer
<1>6. ASSUME NEW e \in set, \A k \in 1 .. n : e < read[k]
      PROVE  Cardinality({f \in set : f > e}) >= n
  <2> DEFINE newer == {f \in set : f > e}
  <2>1. read \in [1 .. n -> newer]
    BY <1>1, <1>2, <1>6
  <2>2. \A j, k \in 1 .. n : read[j] = read[k] => j = k
    <3>1. \A j, k \in 1 .. n : j < k \/ k < j \/ j = k
      OBVIOUS
    <3>2. QED
      BY <1>1, <1>2, <3>1
  <2>3. read \in Injection(1 .. n, newer)
    BY <2>1, <2>2, Fun_IsInj
  <2>4. IsFiniteSet(newer) /\ Cardinality(newer) \in Nat
    BY <1>3
  <2> HIDE DEF newer
  <2>5. Cardinality(1 .. n) <= Cardinality(newer)
    BY <2>3, <2>4, FS_Injection
  <2>6. Cardinality(newer) >= n
    BY <1>4, <2>4, <2>5
  <2>7. QED
    BY <2>6 DEF newer
<1>7. QED
  BY <1>1, <1>5, <1>6

LEMMA WantedRecords ==
  ASSUME TypeInv, NEW c \in ChannelIds
  PROVE  /\ log[c] \in SUBSET EventIds
         /\ Cap[c] \in Nat \ {0} /\ Cardinality(log[c]) \in Nat
         /\ \A e \in Wanted(c) : e \in log[c]
<1>1. log \in [1 .. Channels + 1 -> SUBSET EventIds] /\ Channels \in Nat
  BY Typing DEF TypeInv
<1>2. c \in 1 .. Channels + 1
  BY <1>1 DEF ChannelIds
<1>3. log[c] \in SUBSET EventIds
  BY <1>1, <1>2
<1>4. QED
  BY <1>3, EventSetsAreFinite, CollectionAssumption DEF Wanted

LEMMA ReadIsWanted ==
  ASSUME TypeInv, NEW c \in ChannelIds,
         NEW n \in 0 .. AtMost(Cardinality(log[c]), Cap[c]),
         NEW read \in Newest(log[c], n)
  PROVE  /\ read \in Seq(EventIds) /\ \A k \in DOMAIN read : read[k] \in Wanted(c)
         /\ n = AtMost(Cardinality(log[c]), Cap[c]) =>
              \A e \in Wanted(c) : \E k \in DOMAIN read : read[k] = e
<1>1. /\ log[c] \in SUBSET EventIds /\ Cap[c] \in Nat
      /\ Cardinality(log[c]) \in Nat
  BY WantedRecords
<1>2. n \in Nat /\ n <= Cap[c] /\ n <= Cardinality(log[c])
  BY <1>1 DEF AtMost
<1>3. /\ read \in [1 .. n -> log[c]]
      /\ \A k \in 1 .. n : Cardinality({f \in log[c] : f > read[k]}) < n
      /\ \A e \in log[c] :
           (\E k \in 1 .. n : read[k] = e) \/ Cardinality({f \in log[c] : f > e}) >= n
  BY <1>1, <1>2, NewestReads
<1>4. \A e \in log[c] : Cardinality({f \in log[c] : f > e}) \in Nat
  <2> SUFFICES ASSUME NEW e \in log[c] PROVE Cardinality({f \in log[c] : f > e}) \in Nat
    OBVIOUS
  <2>1. {f \in log[c] : f > e} \in SUBSET EventIds
    BY <1>1
  <2>2. QED
    BY <2>1, EventSetsAreFinite
<1>5. ASSUME NEW k \in 1 .. n PROVE read[k] \in Wanted(c)
  <2> DEFINE newer == Cardinality({f \in log[c] : f > read[k]})
  <2>0. read[k] \in log[c] /\ newer < n
    BY <1>3
  <2>1. newer \in Nat
    BY <1>4, <2>0
  <2> HIDE DEF newer
  <2>2. newer < Cap[c]
    BY <1>1, <1>2, <2>0, <2>1
  <2>3. QED
    BY <2>0, <2>2 DEF Wanted, newer
<1>6. ASSUME n = AtMost(Cardinality(log[c]), Cap[c]), NEW e \in Wanted(c)
      PROVE  \E k \in 1 .. n : read[k] = e
  <2> DEFINE newer == {f \in log[c] : f > e}
  <2>1. e \in log[c] /\ Cardinality(newer) < Cap[c] /\ Cardinality(newer) \in Nat
    BY <1>4 DEF Wanted
  <2>2. Cardinality(newer) < Cardinality(log[c])
    <3>1. IsFiniteSet(log[c]) /\ e \notin newer /\ newer \subseteq log[c] \ {e}
      BY <1>1, <2>1, EventSetsAreFinite
    <3>2. /\ IsFiniteSet(log[c] \ {e})
          /\ Cardinality(log[c] \ {e}) = Cardinality(log[c]) - 1
      BY <2>1, <3>1, FS_RemoveElement
    <3>3. Cardinality(newer) <= Cardinality(log[c] \ {e})
      BY <3>1, <3>2, FS_Subset
    <3>4. QED
      BY <1>1, <2>1, <3>2, <3>3
  <2>3. ~ (Cardinality(newer) >= n)
    BY <1>1, <1>6, <2>1, <2>2 DEF AtMost
  <2>4. QED
    BY <1>3, <2>1, <2>3
<1>7. DOMAIN read = 1 .. n /\ read \in Seq(EventIds)
  <2>1. read \in [1 .. n -> EventIds]
    BY <1>1, <1>3
  <2>2. QED
    BY <1>2, <2>1, FunctionIsSeq
<1>8. QED
  BY <1>5, <1>6, <1>7

(* c has the elements of s and t and no other.                             *)
Joins(c, s, t) ==
  /\ \A k \in DOMAIN c : (\E i \in DOMAIN s : c[k] = s[i]) \/ (\E i \in DOMAIN t : c[k] = t[i])
  /\ \A i \in DOMAIN s : \E k \in DOMAIN c : c[k] = s[i]
  /\ \A i \in DOMAIN t : \E k \in DOMAIN c : c[k] = t[i]

LEMMA ConcatElements ==
  ASSUME NEW S, NEW s \in Seq(S), NEW t \in Seq(S)
  PROVE  s \o t \in Seq(S) /\ Joins(s \o t, s, t)
<1> DEFINE c == s \o t
<1>1. /\ c \in Seq(S)
      /\ Len(c) = Len(s) + Len(t)
      /\ \A i \in 1 .. Len(s) + Len(t) : c[i] = IF i <= Len(s) THEN s[i] ELSE t[i - Len(s)]
  BY ConcatProperties
<1> HIDE DEF c
<1>2. /\ DOMAIN c = 1 .. Len(s) + Len(t) /\ DOMAIN s = 1 .. Len(s)
      /\ DOMAIN t = 1 .. Len(t) /\ Len(s) \in Nat /\ Len(t) \in Nat
  BY <1>1
<1>3. ASSUME NEW k \in DOMAIN c
      PROVE  (\E i \in DOMAIN s : c[k] = s[i]) \/ (\E i \in DOMAIN t : c[k] = t[i])
  <2>1. CASE k <= Len(s)
    BY <1>1, <1>2, <2>1
  <2>2. CASE ~ (k <= Len(s))
    <3>1. k - Len(s) \in DOMAIN t /\ c[k] = t[k - Len(s)]
      BY <1>1, <1>2, <2>2
    <3>2. QED
      BY <3>1
  <2>3. QED
    BY <2>1, <2>2
<1>4. ASSUME NEW i \in DOMAIN s PROVE \E k \in DOMAIN c : c[k] = s[i]
  BY <1>1, <1>2
<1>5. ASSUME NEW i \in DOMAIN t PROVE \E k \in DOMAIN c : c[k] = t[i]
  <2>1. i + Len(s) \in DOMAIN c /\ c[i + Len(s)] = t[i]
    BY <1>1, <1>2
  <2>2. QED
    BY <2>1
<1>6. QED
  BY <1>1, <1>3, <1>4, <1>5 DEF c, Joins

LEMMA EventsInvInit == Init => EventsInv /\ TimelineInv
<1> SUFFICES ASSUME Init PROVE EventsInv /\ TimelineInv
  OBVIOUS
<1>1. /\ channel = 1 /\ unavailable = {} /\ cut = {} /\ records = <<>> /\ gathered = <<>>
      /\ main = "spawn" /\ Channels \in Nat \ {0}
  BY CollectionAssumption DEF Init
<1>2. Queried = {}
  BY <1>1 DEF Queried, ChannelIds
<1>3. thread["Events"] # "returned"
  BY ThreadsAre DEF Init
<1>4. DOMAIN <<>> = {}
  OBVIOUS
<1>5. QED
  BY <1>1, <1>2, <1>3, <1>4 DEF EventsInv, TimelineInv, FromLogs, StandsForAll

(* A channel is queried once: what was read before stays, and the records  *)
(* read now are wanted.                                                    *)
LEMMA QueryKeepsEvents ==
  ASSUME TypeInv, EventsInv, QueryChannel
  PROVE  EventsInv'
<1> DEFINE all == AtMost(Cardinality(log[channel]), Cap[channel])
<1>1. /\ channel \in ChannelIds /\ channel \in Nat /\ channel' = channel + 1 /\ channel <= Channels
      /\ Channels \in Nat
      /\ UNCHANGED <<log, thread, gathered>> /\ thread["Events"] = "running"
      /\ records \in Seq(EventIds) /\ gathered \in Seq(EventIds)
  BY Typing DEF QueryChannel, TypeInv, ChannelIds
<1>2. /\ Queried' = Queried \cup {channel} /\ channel \notin Queried
      /\ channel \notin unavailable \cup cut
      /\ \A c \in ChannelIds : Wanted(c)' = Wanted(c)
  BY <1>1 DEF EventsInv, Queried, ChannelIds, Wanted
<1>3. /\ \/ UNCHANGED <<unavailable, cut>>
         \/ cut' = cut \cup {channel} /\ UNCHANGED unavailable
         \/ unavailable' = unavailable \cup {channel} /\ UNCHANGED <<records, cut>>
      /\ \/ UNCHANGED records /\ unavailable' = unavailable \cup {channel}
         \/ /\ \E n \in 0 .. all : \E read \in Newest(log[channel], n) :
                 /\ records' = records \o read
                 /\ n = all \/ cut' = cut \cup {channel}
            /\ UNCHANGED unavailable
  <2>1. all \in Nat
    BY <1>1, WantedRecords DEF AtMost
  <2>2. all \in 0 .. all /\ \A n \in 0 .. all - 1 : n \in 0 .. all
    BY <2>1
  <2> HIDE DEF all
  <2>3. \/ /\ \E read \in Newest(log[channel], all) : records' = records \o read
           /\ UNCHANGED <<unavailable, cut>>
        \/ /\ \E n \in 0 .. all - 1 : \E read \in Newest(log[channel], n) : records' = records \o read
           /\ cut' = cut \cup {channel} /\ UNCHANGED unavailable
        \/ unavailable' = unavailable \cup {channel} /\ UNCHANGED <<records, cut>>
    BY DEF QueryChannel, all
  <2>4. QED
    BY <2>2, <2>3
<1> HIDE DEF all
<1>4. (unavailable \cup cut \subseteq Queried)'
  BY <1>2, <1>3 DEF EventsInv
<1>5. UNION {Wanted(c) : c \in Queried \ unavailable}
        \subseteq UNION {Wanted(c)' : c \in Queried' \ unavailable'}
  <2>1. Queried \ unavailable \subseteq Queried' \ unavailable'
    BY <1>2, <1>3
  <2>2. \A c \in Queried : Wanted(c)' = Wanted(c)
    BY <1>2 DEF Queried
  <2>3. QED
    BY <2>1, <2>2
<1>6. FromLogs(gathered)'
  BY <1>1, <1>5 DEF EventsInv, FromLogs
<1>7. /\ FromLogs(records)' /\ StandsForAll(records)'
  <2>1. CASE UNCHANGED records /\ unavailable' = unavailable \cup {channel}
    <3>1. FromLogs(records)'
      BY <1>1, <1>5, <2>1 DEF EventsInv, FromLogs
    <3>2. Queried' \ (unavailable' \cup cut') \subseteq Queried \ (unavailable \cup cut)
      BY <1>2, <1>3, <2>1
    <3>3. StandsForAll(records)'
      BY <1>1, <1>2, <2>1, <3>2 DEF EventsInv, StandsForAll, Queried
    <3>4. QED
      BY <3>1, <3>3
  <2>2. ASSUME NEW n \in 0 .. all, NEW read \in Newest(log[channel], n),
               records' = records \o read, n = all \/ cut' = cut \cup {channel},
               UNCHANGED unavailable
        PROVE  FromLogs(records)' /\ StandsForAll(records)'
    <3>1. /\ read \in Seq(EventIds) /\ \A k \in DOMAIN read : read[k] \in Wanted(channel)
          /\ n = all => \A e \in Wanted(channel) : \E k \in DOMAIN read : read[k] = e
      BY <1>1, ReadIsWanted DEF all
    <3>2. Joins(records', records, read)
      BY <1>1, <2>2, <3>1, ConcatElements
    <3>3. Wanted(channel) \subseteq UNION {Wanted(c)' : c \in Queried' \ unavailable'}
      <4>1. channel \in Queried' \ unavailable'
        BY <1>1, <1>2, <2>2
      <4>2. \A c \in ChannelIds : Wanted(c)' = Wanted(c)
        BY <1>2
      <4>3. Queried' \subseteq ChannelIds
        BY DEF Queried
      <4>4. \A e \in Wanted(channel) : \E c \in Queried' \ unavailable' : e \in Wanted(c)'
        BY <1>1, <4>1, <4>2
      <4>5. QED
        BY <4>4
    <3>4. FromLogs(records)'
      BY <1>1, <1>5, <3>1, <3>2, <3>3 DEF EventsInv, FromLogs, Joins
    <3>5. ASSUME NEW c \in Queried' \ (unavailable' \cup cut'), NEW e \in Wanted(c)
          PROVE  \E k \in DOMAIN records' : Key[records'[k]] = Key[e]
      <4>1. CASE c = channel
        <5>1. n = all
          BY <1>2, <2>2, <3>5, <4>1
        <5>2. QED
          BY <3>1, <3>2, <4>1, <5>1 DEF Joins
      <4>2. CASE c # channel
        <5>1. c \in Queried \ (unavailable \cup cut)
          BY <1>2, <1>3, <2>2, <4>2
        <5>2. PICK i \in DOMAIN records : Key[records[i]] = Key[e]
          BY <1>1, <5>1 DEF EventsInv, StandsForAll
        <5>3. QED
          BY <3>2, <5>2 DEF Joins
      <4>3. QED
        BY <4>1, <4>2
    <3>6. StandsForAll(records)'
      <4>1. \A c \in Queried' : Wanted(c)' = Wanted(c)
        BY <1>2 DEF Queried
      <4>2. QED
        BY <3>5, <4>1 DEF StandsForAll
    <3>7. QED
      BY <3>4, <3>6
  <2>3. QED
    BY <1>3, <2>1, <2>2
<1>8. ~ (channel' > Channels + 1)
  BY <1>1
<1>9. QED
  BY <1>1, <1>4, <1>6, <1>7, <1>8 DEF EventsInv

(* Merging and the reliability records keep what the channels gave.        *)
LEMMA MergeKeepsEvents ==
  ASSUME TypeInv, NEW seq \in Seq(EventIds), NEW merged \in Merged(seq)
  PROVE  /\ FromLogs(seq) => FromLogs(merged)
         /\ StandsForAll(seq) => StandsForAll(merged)
<1>1. /\ \A k \in DOMAIN merged : \E i \in DOMAIN seq : merged[k] = seq[i]
      /\ \A i \in DOMAIN seq : \E k \in DOMAIN merged : Key[merged[k]] = Key[seq[i]]
  BY MergedKeeps
<1>2. FromLogs(seq) => FromLogs(merged)
  BY <1>1 DEF FromLogs
<1>3. StandsForAll(seq) => StandsForAll(merged)
  BY <1>1 DEF StandsForAll
<1>4. QED
  BY <1>2, <1>3

LEMMA SourcesKept ==
  ASSUME TypeInv, UNCHANGED <<log, unavailable, cut>>,
         channel' = channel \/ (channel > Channels /\ channel' = channel + 1)
  PROVE  /\ Queried' = Queried
         /\ \A seq : FromLogs(seq) => FromLogs(seq)'
         /\ \A seq : StandsForAll(seq) => StandsForAll(seq)'
<1>1. Channels \in Nat /\ channel \in Nat
  BY Typing DEF TypeInv
<1>2. Queried' = Queried
  BY <1>1 DEF Queried, ChannelIds
<1>3. \A c : Wanted(c)' = Wanted(c)
  BY DEF Wanted
<1>4. UNION {Wanted(c)' : c \in Queried' \ unavailable'} = UNION {Wanted(c) : c \in Queried \ unavailable}
  BY <1>2, <1>3
<1>5. \A seq : FromLogs(seq) => FromLogs(seq)'
  BY <1>4 DEF FromLogs
<1>6. \A seq : StandsForAll(seq) => StandsForAll(seq)'
  BY <1>2, <1>3 DEF StandsForAll
<1>7. QED
  BY <1>2, <1>5, <1>6

LEMMA EndEventLogKeeps ==
  ASSUME TypeInv, EventsInv, EndEventLog
  PROVE  EventsInv'
<1>1. /\ channel = Channels + 1 /\ channel' = channel + 1 /\ Channels \in Nat
      /\ UNCHANGED <<log, unavailable, cut, thread>> /\ thread["Events"] = "running"
      /\ records' = <<>> /\ records \in Seq(EventIds)
  BY Typing DEF EndEventLog, TypeInv
<1>2. /\ Queried' = Queried
      /\ \A seq : FromLogs(seq) => FromLogs(seq)'
      /\ \A seq : StandsForAll(seq) => StandsForAll(seq)'
  <2>1. channel > Channels
    BY <1>1
  <2>2. QED
    BY <1>1, <2>1, SourcesKept
<1>3. PICK m \in Merged(records) : gathered' = m
  BY DEF EndEventLog
<1>4. FromLogs(m) /\ StandsForAll(m)
  BY <1>1, <1>3, MergeKeepsEvents DEF EventsInv
<1>5. FromLogs(m)' /\ StandsForAll(m)'
  BY <1>2, <1>4
<1>6. FromLogs(gathered)' /\ StandsForAll(gathered)'
  BY <1>3, <1>5 DEF FromLogs, StandsForAll
<1>7. FromLogs(records)'
  BY <1>1 DEF FromLogs
<1>8. ~ (channel' <= Channels + 1)
  BY <1>1
<1>9. QED
  BY <1>1, <1>2, <1>6, <1>7, <1>8 DEF EventsInv

LEMMA ReliabilityKeeps ==
  ASSUME TypeInv, EventsInv, QueryReliability
  PROVE  EventsInv'
<1>1. /\ channel = Channels + 2 /\ channel' = channel + 1 /\ Channels \in Nat
      /\ UNCHANGED <<log, unavailable, cut, thread, gathered>> /\ thread["Events"] = "running"
  BY Typing DEF QueryReliability, TypeInv
<1>2. /\ Queried' = Queried
      /\ \A seq : FromLogs(seq) => FromLogs(seq)'
      /\ \A seq : StandsForAll(seq) => StandsForAll(seq)'
  <2>1. channel > Channels
    BY <1>1
  <2>2. QED
    BY <1>1, <2>1, SourcesKept
<1>3. FromLogs(gathered)' /\ StandsForAll(gathered)'
  <2>1. PICK m : m = gathered
    OBVIOUS
  <2>2. channel > Channels + 1
    BY <1>1
  <2>3. FromLogs(m)' /\ StandsForAll(m)'
    BY <1>2, <2>1, <2>2 DEF EventsInv
  <2>4. QED
    BY <1>1, <2>1, <2>3 DEF FromLogs, StandsForAll
<1>4. FromLogs(records)'
  <2>1. CASE UNCHANGED records
    <3>1. PICK m : m = records
      OBVIOUS
    <3>2. FromLogs(m)'
      BY <1>2, <3>1 DEF EventsInv
    <3>3. QED
      BY <2>1, <3>1, <3>2 DEF FromLogs
  <2>2. ASSUME NEW set \in SUBSET log[Reliability], records' \in SortedRecords(set)
        PROVE  FromLogs(records)'
    <3>1. records' \in [1 .. Cardinality(set) -> set]
      BY <2>2 DEF SortedRecords
    <3>2. \A k \in DOMAIN records' : records'[k] \in log[Reliability]
      BY <3>1
    <3>3. QED
      BY <1>1, <3>2 DEF FromLogs, Reliability
  <2>3. QED
    BY <2>1, <2>2 DEF QueryReliability
<1>5. ~ (channel' <= Channels + 1)
  BY <1>1
<1>6. QED
  BY <1>1, <1>2, <1>3, <1>4, <1>5 DEF EventsInv

LEMMA EndEventsKeeps ==
  ASSUME TypeInv, EventsInv, EndEvents
  PROVE  EventsInv'
<1>1. /\ channel = Channels + 3 /\ channel' = channel /\ Channels \in Nat
      /\ UNCHANGED <<log, unavailable, cut>>
      /\ records' = <<>> /\ records \in Seq(EventIds) /\ gathered \in Seq(EventIds)
  BY Typing DEF EndEvents, TypeInv
<1>2. /\ Queried' = Queried
      /\ \A seq : FromLogs(seq) => FromLogs(seq)'
      /\ \A seq : StandsForAll(seq) => StandsForAll(seq)'
  BY <1>1, SourcesKept
<1> DEFINE both == gathered \o records
<1>3. both \in Seq(EventIds) /\ Joins(both, gathered, records)
  BY <1>1, ConcatElements
<1>4. PICK m \in Merged(both) : gathered' = m
  BY DEF EndEvents
<1> HIDE DEF both
<1>5. FromLogs(both)
  BY <1>3 DEF EventsInv, FromLogs, Joins
<1>6. StandsForAll(both)
  <2>1. channel > Channels + 1
    BY <1>1
  <2>2. StandsForAll(gathered)
    BY <2>1 DEF EventsInv
  <2>3. \A i \in DOMAIN gathered : \E k \in DOMAIN both : both[k] = gathered[i]
    BY <1>3 DEF Joins
  <2>4. QED
    BY <2>2, <2>3 DEF StandsForAll
<1>7. FromLogs(m)' /\ StandsForAll(m)' /\ InOrder(m)
  BY <1>2, <1>3, <1>4, <1>5, <1>6, MergeKeepsEvents, MergedKeeps
<1>8. FromLogs(gathered)' /\ StandsForAll(gathered)' /\ InOrder(gathered)'
  BY <1>4, <1>7 DEF FromLogs, StandsForAll, InOrder
<1>9. FromLogs(records)'
  BY <1>1 DEF FromLogs
<1>10. ~ (channel' <= Channels + 1)
  BY <1>1
<1>11. QED
  BY <1>1, <1>2, <1>8, <1>9, <1>10 DEF EventsInv

LEMMA EventsInvStep ==
  ASSUME TypeInv, EventsInv, [Next]_vars
  PROVE  EventsInv'
<1>1. CASE QueryChannel \/ EndEventLog \/ QueryReliability \/ EndEvents
  BY <1>1, QueryKeepsEvents, EndEventLogKeeps, ReliabilityKeeps, EndEventsKeeps
<1>2. CASE ~ (QueryChannel \/ EndEventLog \/ QueryReliability \/ EndEvents)
  <2>1. UNCHANGED <<log, channel, unavailable, cut, records, gathered>>
    BY <1>2 DEF Next, Caller, Spawn, Join, FillReport, ReadDumps, Corroborate, Analyse,
       EventsThread, ServicesThread, CollectServices, PlainThread, Collect, Panic, Finished, vars
  <2>2. thread'["Events"] = "returned" => thread["Events"] = "returned"
    <3>1. /\ thread \in [Threads -> {"unborn", "running", "returned", "panicked"}]
          /\ "Events" \in Threads /\ "Events" \notin Plain
      BY Typing, ThreadsAre DEF TypeInv
    <3>2. QED
      BY <1>2, <3>1 DEF Next, Caller, Spawn, Join, FillReport, ReadDumps, Corroborate, Analyse,
         EventsThread, ServicesThread, CollectServices, PlainThread, Collect, Return, Panic,
         Finished, vars
  <2>3. Queried' = Queried /\ \A c : Wanted(c)' = Wanted(c)
    BY <2>1 DEF Queried, Wanted
  <2>4. UNION {Wanted(c)' : c \in Queried' \ unavailable'} = UNION {Wanted(c) : c \in Queried \ unavailable}
    BY <2>1, <2>3
  <2>5. FromLogs(records)' /\ FromLogs(gathered)'
    BY <2>1, <2>4 DEF EventsInv, FromLogs
  <2>6. /\ channel' <= Channels + 1 => StandsForAll(records)'
        /\ channel' > Channels + 1 => StandsForAll(gathered)'
    BY <2>1, <2>3 DEF EventsInv, StandsForAll
  <2>7. thread'["Events"] = "returned" => InOrder(gathered)'
    BY <2>1, <2>2 DEF EventsInv, InOrder
  <2>8. QED
    BY <2>1, <2>3, <2>5, <2>6, <2>7 DEF EventsInv
<1>3. QED
  BY <1>1, <1>2

(* After the report is filled in, its timeline is what the events thread   *)
(* gathered; nothing changes either.                                       *)
LEMMA TimelineStep ==
  ASSUME TypeInv, GapInv, TimelineInv, [Next]_vars
  PROVE  TimelineInv'
<1>1. CASE main \in {"dumps", "corroborate", "analyse", "done", "panicked"} /\ ~Caller
  <2>1. UNCHANGED <<main, timeline, problems, marked>>
    BY <1>1 DEF Next, EventsThread, QueryChannel, EndEventLog, QueryReliability, EndEvents,
       ServicesThread, CollectServices, PlainThread, Collect, Panic, Finished, vars
  <2>2. Ended("Events") /\ "Events" \in Threads
    <3>1. Collectors[8] = "Events"
      BY DEF Collectors
    <3>2. QED
      BY <1>1, <3>1, AllEnded, ThreadsAre DEF GapInv, JoinedInOrder
  <2>3. thread'["Events"] = thread["Events"]
    BY <1>1, <2>2, EndedStays
  <2>4. gathered' = gathered
    BY <1>1, <2>2 DEF Ended, Next, EventsThread, QueryChannel, EndEventLog, QueryReliability,
       EndEvents, ServicesThread, CollectServices, PlainThread, Collect, Panic, Finished, vars
  <2>5. QED
    BY <2>1, <2>3, <2>4 DEF TimelineInv
<1>2. CASE main \in {"spawn", "join"} /\ ~FillReport
  <2>1. main' \in {"spawn", "join"}
    BY <1>2 DEF Next, Caller, Spawn, Join, ReadDumps, Corroborate, Analyse,
       EventsThread, QueryChannel, EndEventLog, QueryReliability, EndEvents,
       ServicesThread, CollectServices, PlainThread, Collect, Panic, Finished, vars
  <2>2. QED
    BY <2>1 DEF TimelineInv
<1>3. CASE FillReport
  BY <1>3 DEF FillReport, TimelineInv
<1>4. CASE ReadDumps
  BY <1>4 DEF ReadDumps, TimelineInv
<1>5. CASE Corroborate
  BY <1>5 DEF Corroborate, TimelineInv
<1>6. CASE Analyse
  BY <1>6 DEF Analyse, TimelineInv
<1>7. CASE (Spawn \/ Join) /\ ~ (main \in {"spawn", "join"})
  BY <1>7 DEF Spawn, Join
<1>8. QED
  BY <1>1, <1>2, <1>3, <1>4, <1>5, <1>6, <1>7 DEF Caller, TypeInv, TypeOK

LEMMA TimelineInvariant == Spec => [](TypeInv /\ GapInv /\ EventsInv /\ TimelineInv)
<1>1. TypeInv /\ GapInv /\ EventsInv /\ TimelineInv /\ [Next]_vars => (EventsInv /\ TimelineInv)'
  BY EventsInvStep, TimelineStep
<1>2. QED
  BY <1>1, EventsInvInit, GapInvariant, PTL DEF Spec

LEMMA TimelineHolds ==
  ASSUME TypeInv, GapInv, EventsInv, TimelineInv
  PROVE  TimelineIsMerged
<1> SUFFICES ASSUME main = "done", thread["Events"] = "returned"
             PROVE  /\ InOrder(timeline)
                    /\ \A k \in DOMAIN timeline :
                         timeline[k] \in log[Reliability]
                           \cup UNION {Wanted(c) : c \in ChannelIds \ unavailable}
                    /\ \A c \in ReadInFull : \A e \in Wanted(c) :
                         \E k \in DOMAIN timeline : Key[timeline[k]] = Key[e]
  BY DEF TimelineIsMerged, InOrder
<1>1. timeline = gathered /\ channel = Channels + 3 /\ Channels \in Nat
  BY Typing DEF TimelineInv, GapInv, EventNotesInv, TypeInv
<1>2. Queried = ChannelIds /\ channel > Channels + 1
  BY <1>1 DEF Queried, ChannelIds
<1>3. FromLogs(timeline) /\ StandsForAll(timeline) /\ InOrder(timeline)
  BY <1>1, <1>2 DEF EventsInv
<1>4. QED
  BY <1>2, <1>3 DEF FromLogs, StandsForAll, ReadInFull

(* Whatever the logs hold, whichever channels fail and wherever a read is  *)
(* cut short: a finished timeline is in order, has one record of a key,    *)
(* invents nothing, and misses nothing of a channel read to its end.       *)
THEOREM TimelineIsTrue == Spec => []TimelineIsMerged
BY TimelineInvariant, TimelineHolds, PTL

LEMMA UnmarkedHolds ==
  ASSUME TypeInv, GapInv, EventsInv, TimelineInv
  PROVE  UnmarkedOnlyByDedup
<1> SUFFICES ASSUME main = "done", thread["Events"] = "returned",
                    NEW i \in DOMAIN problems \ marked, NEW c \in ReadInFull, NEW e \in Wanted(c),
                    problems[i] \in Mentions[e]
             PROVE  \E k \in DOMAIN timeline : timeline[k] # e /\ Key[timeline[k]] = Key[e]
  BY DEF UnmarkedOnlyByDedup
<1>1. PICK k \in DOMAIN timeline : Key[timeline[k]] = Key[e]
  BY TimelineHolds DEF TimelineIsMerged
<1>2. ~ (problems[i] \in Mentions[timeline[k]])
  BY DEF TimelineInv
<1>3. QED
  BY <1>1, <1>2

(* A service a record speaks of goes uncorroborated only when another      *)
(* record with the same key stands for that one.                           *)
THEOREM OnlyDedupUnmarks == Spec => []UnmarkedOnlyByDedup
BY TimelineInvariant, UnmarkedHolds, PTL
-----------------------------------------------------------------------------
(* The scan ends after finitely many steps: each of them takes one from    *)
(* what remains.                                                           *)

LEMMA ThreadsAreFinite == IsFiniteSet(Threads)
<1>1. DOMAIN Collectors = 1 .. 8
  BY DEF Collectors
<1> DEFINE f == [i \in 1 .. 8 |-> Collectors[i]]
<1>2. f \in [1 .. 8 -> Threads] /\ \A p \in Threads : \E i \in 1 .. 8 : f[i] = p
  BY <1>1 DEF Threads
<1> HIDE DEF f
<1>3. f \in Surjection(1 .. 8, Threads)
  BY <1>2, Fun_IsSurj
<1>4. IsFiniteSet(1 .. 8)
  <2>1. 1 \in Int /\ 8 \in Int
    OBVIOUS
  <2>2. QED
    BY <2>1, FS_Interval
<1>5. QED
  BY <1>3, <1>4, FS_Surjection

LEMMA BusyIs == Busy \subseteq Threads /\ IsFiniteSet(Busy) /\ Cardinality(Busy) \in Nat
<1>1. Busy \in SUBSET Threads
  BY DEF Busy
<1>2. QED
  BY <1>1, ThreadsAreFinite, FS_Subset, FS_CardinalityType

(* A thread that ends is busy no more, and the others are as they were.    *)
LEMMA OneLessBusy ==
  ASSUME TypeOK, NEW p \in Threads, thread[p] = "running", NEW end \in {"returned", "panicked"},
         thread' = [thread EXCEPT ![p] = end]
  PROVE  Cardinality(Busy') = Cardinality(Busy) - 1
<1>1. thread \in [Threads -> {"unborn", "running", "returned", "panicked"}]
  BY Typing
<1>2. Busy' = Busy \ {p} /\ p \in Busy
  BY <1>1 DEF Busy
<1>3. QED
  BY <1>2, BusyIs, FS_RemoveElement

(* The four parts of what remains are natural numbers.                     *)
LEMMA PartsOfRemaining ==
  ASSUME TypeInv
  PROVE  /\ CallerSteps[main] \in Nat
         /\ Len(Collectors) - Len(joined) \in Nat
         /\ Cardinality(Busy) \in Nat
         /\ Channels + 3 - channel \in Nat
<1>1. main \in {"spawn", "join", "dumps", "corroborate", "analyse", "done", "panicked"}
  BY DEF TypeInv, TypeOK
<1>2. CallerSteps[main] \in Nat
  BY <1>1 DEF CallerSteps
<1>3. Len(Collectors) - Len(joined) \in Nat
  <2>1. Len(joined) \in Nat /\ Len(joined) <= Len(Collectors) /\ Len(Collectors) = 8
    BY Typing, ThreadsAre DEF TypeInv, TypeOK
  <2>2. QED
    BY <2>1
<1>4. Channels + 3 - channel \in Nat
  <2>1. Channels \in Nat /\ channel \in 1 .. Channels + 3
    BY Typing DEF TypeInv
  <2>2. QED
    BY <2>1
<1>5. Cardinality(Busy) \in Nat
  BY BusyIs
<1>6. QED
  BY <1>2, <1>3, <1>4, <1>5

(* A step that takes one part down and none up takes one from the sum.     *)
Falls(a, b, c, d, x, y, z, t) ==
  /\ a \in Nat /\ b \in Nat /\ c \in Nat /\ d \in Nat
  /\ x \in 0 .. a /\ y \in 0 .. b /\ z \in 0 .. c /\ t \in 0 .. d
  /\ x < a \/ y < b \/ z < c \/ t < d

SumOf(a, b, c, d) == a + b + c + d

LEMMA SumFalls ==
  ASSUME NEW a, NEW b, NEW c, NEW d, NEW x, NEW y, NEW z, NEW t,
         Falls(a, b, c, d, x, y, z, t)
  PROVE  SumOf(x, y, z, t) \in 0 .. SumOf(a, b, c, d) - 1
BY DEF Falls, SumOf

(* One part falls by one and the others stay.                              *)
LEMMA OneFalls ==
  ASSUME NEW a \in Nat, NEW b \in Nat, NEW c \in Nat, NEW d \in Nat
  PROVE  /\ \A x \in Nat : x < a => Falls(a, b, c, d, x, b, c, d)
         /\ \A y \in Nat : y < b => Falls(a, b, c, d, a, y, c, d)
         /\ \A z \in Nat : z < c => Falls(a, b, c, d, a, b, z, d)
         /\ \A t \in Nat : t < d => Falls(a, b, c, d, a, b, c, t)
BY DEF Falls

(* What is left of each part, before and after a step.                     *)
PartsFall ==
  Falls(CallerSteps[main], Len(Collectors) - Len(joined), Cardinality(Busy), Channels + 3 - channel,
        CallerSteps[main'], Len(Collectors) - Len(joined'), Cardinality(Busy'), Channels + 3 - channel')

(* No thread ends before there are threads.                                *)
UnbornFirst == main = "spawn" => \A p \in Threads : thread[p] = "unborn"

LEMMA UnbornStep == TypeInv /\ UnbornFirst /\ [Next]_vars => UnbornFirst'
<1> SUFFICES ASSUME TypeInv, UnbornFirst, [Next]_vars, main' = "spawn"
             PROVE  \A p \in Threads : thread'[p] = "unborn"
  BY DEF UnbornFirst
<1>0. "Events" \in Threads /\ "Services" \in Threads /\ Plain \subseteq Threads
  BY ThreadsAre DEF Plain
<1>1. CASE Caller
  BY <1>1 DEF Caller, Spawn, Join, FillReport, ReadDumps, Corroborate, Analyse, UnbornFirst
<1>2. CASE EventsThread
  BY <1>0, <1>2 DEF EventsThread, QueryChannel, EndEventLog, QueryReliability, EndEvents, Panic,
                    UnbornFirst
<1>3. CASE ServicesThread
  BY <1>0, <1>3 DEF ServicesThread, CollectServices, Panic, UnbornFirst
<1>4. CASE \E q \in Plain : PlainThread(q)
  BY <1>0, <1>4 DEF PlainThread, Collect, Panic, UnbornFirst
<1>5. CASE UNCHANGED vars
  BY <1>5 DEF vars, UnbornFirst
<1>6. QED
  BY <1>1, <1>2, <1>3, <1>4, <1>5 DEF Next, Finished

LEMMA UnbornInvariant == Spec => [](TypeInv /\ UnbornFirst)
<1>1. Init => UnbornFirst
  BY DEF Init, UnbornFirst
<1>2. QED
  BY <1>1, UnbornStep, TypeInvariant, PTL DEF Spec

LEMMA CallerAdvances ==
  ASSUME TypeInv, UnbornFirst, Caller
  PROVE  PartsFall
<1> DEFINE a == CallerSteps[main]
           b == Len(Collectors) - Len(joined)
           c == Cardinality(Busy)
           d == Channels + 3 - channel
<1>0. a \in Nat /\ b \in Nat /\ c \in Nat /\ d \in Nat
  BY PartsOfRemaining
<1>1. channel' = channel
  BY DEF Caller, Spawn, Join, FillReport, ReadDumps, Corroborate, Analyse
<1>2. CASE Join
  <2>1. main' = main /\ Busy' = Busy /\ Len(joined) < Len(Collectors)
    BY <1>2 DEF Join, Busy
  <2>2. Len(joined') = Len(joined) + 1
    <3>1. PICK x : joined' = Append(joined, x)
      BY <1>2 DEF Join
    <3>2. joined \in Seq(Statuses \X Nat)
      BY DEF TypeInv, TypeOK
    <3>3. QED
      BY <3>1, <3>2
  <2>3. Len(Collectors) - Len(joined') \in Nat /\ Len(Collectors) - Len(joined') < b
    <3>1. Len(joined) \in Nat /\ Len(Collectors) \in Nat
      BY Typing, ThreadsAre DEF TypeInv
    <3>2. QED
      BY <2>1, <2>2, <3>1
  <2>4. a' = a /\ c' = c /\ d' = d
    BY <1>1, <2>1
  <2> HIDE DEF a, c, d
  <2> DEFINE y == Len(Collectors) - Len(joined')
  <2>5. y \in Nat /\ y < b
    BY <2>3
  <2> HIDE DEF b, y
  <2>6. Falls(a, b, c, d, a, y, c, d)
    BY <1>0, <2>5, OneFalls
  <2>7. QED
    BY <2>4, <2>6 DEF PartsFall, a, b, c, d, y
<1>3. CASE ~ Join
  <2>1. joined' = joined /\ CallerSteps[main'] \in Nat /\ CallerSteps[main'] < CallerSteps[main]
    BY <1>3 DEF Caller, Spawn, FillReport, ReadDumps, Corroborate, Analyse, CallerSteps
  <2>2. Busy' = Busy
    <3>1. CASE Spawn
      <4>1. Busy = Threads
        BY <3>1 DEF Spawn, UnbornFirst, Busy
      <4>2. Busy' = Threads
        BY <3>1 DEF Spawn, Busy
      <4>3. QED
        BY <4>1, <4>2
    <3>2. CASE ~ Spawn
      BY <1>3, <3>2 DEF Caller, FillReport, ReadDumps, Corroborate, Analyse, Busy
    <3>3. QED
      BY <3>1, <3>2
  <2>3. b' = b /\ c' = c /\ d' = d
    BY <1>1, <2>1, <2>2
  <2> HIDE DEF b, c, d
  <2>4. Falls(a, b, c, d, a', b, c, d)
    <3>1. a' \in Nat /\ a' < a
      BY <2>1
    <3> HIDE DEF a
    <3>2. QED
      BY <1>0, <3>1, OneFalls
  <2>5. QED
    BY <2>3, <2>4 DEF PartsFall, b, c, d
<1>4. QED
  BY <1>2, <1>3

(* A thread that ends, and keeps to itself.                                *)
LEMMA EndAdvances ==
  ASSUME TypeInv, NEW p \in Threads, thread[p] = "running", NEW end \in {"returned", "panicked"},
         thread' = [thread EXCEPT ![p] = end], UNCHANGED <<main, joined, channel>>
  PROVE  PartsFall
<1>1. Cardinality(Busy') = Cardinality(Busy) - 1
  BY OneLessBusy DEF TypeInv
<1>2. Cardinality(Busy) > 0
  <2>1. p \in Busy
    BY DEF Busy
  <2>2. QED
    BY <2>1, BusyIs, FS_EmptySet
<1> DEFINE a == CallerSteps[main]
           b == Len(Collectors) - Len(joined)
           c == Cardinality(Busy)
           d == Channels + 3 - channel
<1>3. a \in Nat /\ b \in Nat /\ c \in Nat /\ d \in Nat
  BY PartsOfRemaining
<1>4. a' = a /\ b' = b /\ d' = d
  OBVIOUS
<1>5. Falls(a, b, c, d, a, b, c', d)
  <2> DEFINE z == c'
  <2>1. z \in Nat /\ z < c
    BY <1>1, <1>2, <1>3
  <2> HIDE DEF a, b, c, d, z
  <2>2. Falls(a, b, c, d, a, b, z, d)
    BY <1>3, <2>1, OneFalls
  <2>3. QED
    BY <2>2 DEF z
<1> HIDE DEF a, b, d
<1>6. QED
  BY <1>4, <1>5 DEF PartsFall, a, b, d

LEMMA PanicAdvances ==
  ASSUME TypeInv, NEW p \in Threads, Panic(p)
  PROVE  PartsFall
BY EndAdvances DEF Panic

(* A step of the events thread: the next log, or the end.                  *)
LEMMA EventsAdvance ==
  ASSUME TypeInv, EventsThread
  PROVE  PartsFall
<1>0. "Events" \in Threads
  BY ThreadsAre
<1>1. CASE QueryChannel \/ EndEventLog \/ QueryReliability
  <2> DEFINE a == CallerSteps[main]
             b == Len(Collectors) - Len(joined)
             c == Cardinality(Busy)
             d == Channels + 3 - channel
             t == Channels + 3 - channel'
  <2>1. t \in Nat /\ t < d
    <3>1. Channels \in Nat /\ channel \in Nat
      BY Typing DEF TypeInv
    <3>2. channel' = channel + 1 /\ channel < Channels + 3
      BY <1>1, <3>1 DEF QueryChannel, EndEventLog, QueryReliability
    <3>3. QED
      BY <3>1, <3>2
  <2>2. UNCHANGED <<main, joined, thread>>
    BY <1>1 DEF QueryChannel, EndEventLog, QueryReliability
  <2>3. Busy' = Busy
    BY <2>2 DEF Busy
  <2>4. a' = a /\ b' = b /\ c' = c
    BY <2>2, <2>3
  <2>5. a \in Nat /\ b \in Nat /\ c \in Nat /\ d \in Nat
    BY PartsOfRemaining
  <2> HIDE DEF a, b, c, d, t
  <2>6. Falls(a, b, c, d, a, b, c, t)
    BY <2>1, <2>5, OneFalls
  <2>7. QED
    BY <2>4, <2>6 DEF PartsFall, a, b, c, d, t
<1>2. CASE EndEvents
  BY <1>0, <1>2, EndAdvances DEF EndEvents, Return
<1>3. CASE Panic("Events")
  BY <1>0, <1>3, PanicAdvances
<1>4. QED
  BY <1>1, <1>2, <1>3 DEF EventsThread

LEMMA OthersAdvance ==
  ASSUME TypeInv, ServicesThread \/ \E p \in Plain : PlainThread(p)
  PROVE  PartsFall
<1>0. "Services" \in Threads /\ Plain \subseteq Threads
  BY ThreadsAre DEF Plain
<1>1. CASE CollectServices
  BY <1>0, <1>1, EndAdvances DEF CollectServices, Return
<1>2. ASSUME NEW p \in Plain, Collect(p) PROVE PartsFall
  BY <1>0, <1>2, EndAdvances DEF Collect, Return
<1>3. ASSUME NEW p \in Threads, Panic(p) PROVE PartsFall
  BY <1>3, PanicAdvances
<1>4. QED
  BY <1>0, <1>1, <1>2, <1>3 DEF ServicesThread, PlainThread

(* Every step brings the scan closer to its end, for any number of         *)
(* channels and whatever fails or panics: it makes finitely many.          *)
THEOREM ScanIsBounded == Spec => ScanAdvances
<1>1. ASSUME TypeInv, UnbornFirst, [Next]_vars
      PROVE  [Remaining' \in 0 .. Remaining - 1]_vars
  <2>1. CASE UNCHANGED vars
    BY <2>1
  <2>2. CASE PartsFall
    <3> DEFINE before == SumOf(CallerSteps[main], Len(Collectors) - Len(joined),
                               Cardinality(Busy), Channels + 3 - channel)
               after == SumOf(CallerSteps[main'], Len(Collectors) - Len(joined'),
                              Cardinality(Busy'), Channels + 3 - channel')
    <3>1. after \in 0 .. before - 1
      BY <2>2, SumFalls, Zenon DEF PartsFall
    <3>2. Remaining = before /\ Remaining' = after
      BY DEF Remaining, SumOf
    <3> HIDE DEF before, after
    <3>3. Remaining' \in 0 .. Remaining - 1
      BY <3>1, <3>2
    <3>4. QED
      BY <3>3
  <2>3. QED
    BY <1>1, <2>1, <2>2, CallerAdvances, EventsAdvance, OthersAdvance DEF Next, Finished
<1>2. QED
  BY <1>1, UnbornInvariant, PTL DEF Spec, ScanAdvances
=============================================================================
