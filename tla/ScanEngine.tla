----------------------------- MODULE ScanEngine -----------------------------
(***************************************************************************)
(* WinSleuthEngine::run_scan: eight collector threads in one scope, joined *)
(* in a fixed order by the calling thread, which then writes the notes,    *)
(* reads the crash dumps and derives the rest of the report.               *)
(*                                                                         *)
(* The events thread is modelled step by step (channels of the event log,  *)
(* reliability records, both de-duplications); what another collector      *)
(* returns is one of its possible answers.  An event is known by its       *)
(* record number, greater for newer; correlation, change point, rules and  *)
(* scores are functions of the finished collection.                        *)
(***************************************************************************)
EXTENDS Integers, Sequences, FiniteSets

CONSTANTS
  Answers,       \* collector |-> set of <<status, items>> it may return
  MayPanic,      \* those that may panic, "Rules" for the analysis included
  Channels,      \* number of event log channels; 1 is System
  Cap,           \* channel |-> most records read from it
  Batch,         \* records fetched by one EvtNext
  MaxRecords,    \* most reliability records kept
  Events,        \* number of records in all logs
  Time,          \* event |-> its time
  Key,           \* event |-> its dedup_key
  Logs,          \* the possible contents: channel |-> set of events; Channels + 1
                 \*   is the reliability history
  Services,      \* the possible lists of candidate services
  About,         \* event |-> the service an SCM failure record is about, or none
  Mentions       \* event |-> services whose name its message contains

Collectors ==
  <<"SystemInventory", "Firmware", "SecurityPosture", "Drivers", "Devices",
    "Services", "Changes", "Events">>

Threads == {Collectors[i] : i \in DOMAIN Collectors}
Plain == Threads \ {"Services", "Events"}
Providers == Plain \cup {"CrashDumps"}
Single == {"SystemInventory", "Firmware", "SecurityPosture"}
Statuses == {"complete", "partial", "failed"}
EventIds == 1 .. Events
ChannelIds == 1 .. Channels
Reliability == Channels + 1

ASSUME CollectionAssumption ==
  /\ Answers \in [Providers -> SUBSET (Statuses \X Nat)]
  /\ \A p \in Single : \A a \in Answers[p] : a[2] = 1
  /\ \A list \in Services : Len(list) \in Nat
  /\ MayPanic \subseteq Threads \cup {"CrashDumps", "Rules"}
  /\ Channels \in Nat \ {0} /\ Events \in Nat
  /\ Cap \in [ChannelIds -> Nat \ {0}]
  /\ Batch \in Nat \ {0} /\ MaxRecords \in Nat
  /\ Time \in [EventIds -> Nat]
  /\ \A e, f \in EventIds : e < f => Time[e] <= Time[f]
  /\ Logs \subseteq [1 .. Reliability -> SUBSET EventIds]

VARIABLES
  main,         \* step of the calling thread
  thread,       \* collector |-> "unborn", "running", "returned", "panicked"
  answer,       \* collector |-> <<status, items>>
  joined,       \* what the calling thread has joined, in order
  (* the events thread *)
  log,          \* what the logs hold, by channel
  channel,      \* the channel to query next
  unavailable,  \* channels that could not be queried
  cut,          \* channels where EvtNext failed; the code does not keep this
  records,      \* the records being gathered by the current event provider
  gathered,     \* those of the providers before it
  eventNotes,   \* a note for each event provider
  (* services and the report *)
  services,     \* the list the services thread returned
  notes,        \* report.collection
  timeline,
  problems,     \* report.service_problems
  marked        \* positions in problems that are corroborated by the log

sources    == <<unavailable, cut>>
eventVars  == <<channel, sources, records, gathered, eventNotes>>
threadVars == <<thread, answer, services>>
reportVars == <<notes, timeline, problems, marked>>
vars       == <<main, joined, log, threadVars, eventVars, reportVars>>

Note(name, result) == [provider |-> name, status |-> result[1], items |-> result[2]]

(* What is recorded for a thread that panicked: join() makes it a failure  *)
(* with the default value, of which note() counts one when it is not a     *)
(* list; the events thread is joined with unwrap_or_default.               *)
Failed(name) == <<"failed", IF name \in Single THEN 1 ELSE 0>>

Init ==
  /\ main = "spawn" /\ joined = <<>>
  /\ thread = [p \in Threads |-> "unborn"]
  /\ answer = [p \in Threads |-> <<"none", 0>>]
  /\ log \in Logs
  /\ channel = 1 /\ unavailable = {} /\ cut = {} /\ records = <<>> /\ gathered = <<>>
  /\ eventNotes = <<>>
  /\ services = <<>>
  /\ notes = <<>> /\ timeline = <<>> /\ problems = <<>> /\ marked = {}

-----------------------------------------------------------------------------
(* The collectors.                                                         *)

Spawn ==
  /\ main = "spawn"
  /\ main' = "join"
  /\ thread' = [p \in Threads |-> "running"]
  /\ UNCHANGED <<joined, log, answer, services, eventVars, reportVars>>

Return(p, result) ==
  /\ thread' = [thread EXCEPT ![p] = "returned"]
  /\ answer' = [answer EXCEPT ![p] = result]

Collect(p) ==
  /\ p \in Plain /\ thread[p] = "running"
  /\ \E result \in Answers[p] : Return(p, result)
  /\ UNCHANGED <<main, joined, log, services, eventVars, reportVars>>

CollectServices ==
  /\ thread["Services"] = "running"
  /\ \/ \E list \in Services :
          services' = list /\ Return("Services", <<"complete", Len(list)>>)
     \/ services' = <<>> /\ Return("Services", <<"failed", 0>>)
  /\ UNCHANGED <<main, joined, log, eventVars, reportVars>>

Panic(p) ==
  /\ p \in MayPanic /\ thread[p] = "running"
  /\ thread' = [thread EXCEPT ![p] = "panicked"]
  /\ UNCHANGED <<main, joined, log, answer, services, eventVars, reportVars>>

-----------------------------------------------------------------------------
(* The events thread: the event log reader, then the reliability reader.   *)

AtMost(n, bound) == IF n <= bound THEN n ELSE bound

(* retain(|r| seen.insert(key)) keeps the first record with each key;      *)
(* sort_by_key is stable.                                                  *)
Kept(seq) == {i \in DOMAIN seq : \A j \in 1 .. i - 1 : Key[seq[j]] # Key[seq[i]]}

MergeOrders(seq) ==
  {order \in [1 .. Cardinality(Kept(seq)) -> Kept(seq)] :
     \A k, l \in DOMAIN order :
       k < l => \/ Time[seq[order[k]]] < Time[seq[order[l]]]
                \/ Time[seq[order[k]]] = Time[seq[order[l]]] /\ order[k] < order[l]}

Merged(seq) == {[k \in DOMAIN order |-> seq[order[k]]] : order \in MergeOrders(seq)}

(* Variant: without EvtQueryReverseDirection.                              *)
Newest_Forward(set, n) ==
  {seq \in [1 .. n -> set] :
     /\ \A j, k \in DOMAIN seq : j < k => seq[j] < seq[k]
     /\ \A e \in set : (\E k \in DOMAIN seq : seq[k] = e) \/ \A k \in DOMAIN seq : e > seq[k]}

(* The n newest records of a set, newest first.                            *)
Newest(set, n) ==
  {seq \in [1 .. n -> set] :
     /\ \A j, k \in DOMAIN seq : j < k => seq[j] > seq[k]
     /\ \A e \in set : (\E k \in DOMAIN seq : seq[k] = e) \/ \A k \in DOMAIN seq : e < seq[k]}

(* query_channel stops at its cap, at the end of the log, or after any     *)
(* whole batch when EvtNext fails, which it takes for the end of the log.  *)
QueryChannel ==
  /\ thread["Events"] = "running" /\ channel <= Channels
  /\ LET all == AtMost(Cardinality(log[channel]), Cap[channel])
     IN  \/ /\ \E read \in Newest(log[channel], all) : records' = records \o read
            /\ UNCHANGED sources
         \/ /\ \E n \in 0 .. all - 1 :
                 /\ n % Batch = 0
                 /\ \E read \in Newest(log[channel], n) : records' = records \o read
            /\ cut' = cut \cup {channel}
            /\ UNCHANGED unavailable
         \/ /\ unavailable' = unavailable \cup {channel}
            /\ UNCHANGED <<records, cut>>
  /\ channel' = channel + 1
  /\ UNCHANGED <<main, joined, log, threadVars, gathered, eventNotes, reportVars>>

EventLogStatus ==
  IF 1 \in unavailable THEN "failed"
  ELSE IF unavailable = {} THEN "complete" ELSE "partial"

EndEventLog ==
  /\ thread["Events"] = "running" /\ channel = Channels + 1
  /\ gathered' \in Merged(records)
  /\ eventNotes' = <<Note("EventLog", <<EventLogStatus, Len(gathered')>>)>>
  /\ records' = <<>>
  /\ channel' = channel + 1
  /\ UNCHANGED <<main, joined, log, threadVars, sources, reportVars>>

(* WMI lists the records in no particular order; the first MaxRecords are  *)
(* sorted by time.                                                         *)
SortedRecords(set) ==
  {seq \in [1 .. Cardinality(set) -> set] :
     \A j, k \in DOMAIN seq : j < k => seq[j] # seq[k] /\ Time[seq[j]] <= Time[seq[k]]}

(* Variant: when WMI is not there the event providers are started over.    *)
QueryReliability_StartsOver ==
  /\ thread["Events"] = "running" /\ channel = Channels + 2
  /\ \/ /\ eventNotes' = Append(eventNotes, Note("ReliabilityMonitor", <<"complete", 0>>))
        /\ channel' = channel + 1
     \/ /\ eventNotes' = <<>>
        /\ channel' = Channels + 1
  /\ UNCHANGED <<main, joined, log, threadVars, records, sources, gathered, reportVars>>

QueryReliability ==
  /\ thread["Events"] = "running" /\ channel = Channels + 2
  /\ \/ \E set \in SUBSET log[Reliability] :
          /\ Cardinality(set) = AtMost(Cardinality(log[Reliability]), MaxRecords)
          /\ records' \in SortedRecords(set)
          /\ eventNotes' = Append(eventNotes, Note("ReliabilityMonitor", <<"complete", Len(records')>>))
     \/ \E status \in {"partial", "failed"} :   \* no such class; no WMI
          /\ eventNotes' = Append(eventNotes, Note("ReliabilityMonitor", <<status, 0>>))
          /\ UNCHANGED records
  /\ channel' = channel + 1
  /\ UNCHANGED <<main, joined, log, threadVars, sources, gathered, reportVars>>

EndEvents ==
  /\ thread["Events"] = "running" /\ channel = Channels + 3
  /\ gathered' \in Merged(gathered \o records)
  /\ records' = <<>>
  /\ Return("Events", <<"complete", Len(gathered')>>)
  /\ UNCHANGED <<main, joined, log, services, channel, sources, eventNotes, reportVars>>

-----------------------------------------------------------------------------
(* The calling thread.                                                     *)

(* Variant: unwrap_or_default for every thread, not only the events.       *)
Join_Defaults ==
  /\ main = "join" /\ Len(joined) < Len(Collectors)
  /\ LET p == Collectors[Len(joined) + 1]
     IN  /\ thread[p] \in {"returned", "panicked"}
         /\ joined' = Append(joined, IF thread[p] = "panicked" THEN <<"complete", Failed(p)[2]>> ELSE answer[p])
  /\ UNCHANGED <<main, log, threadVars, eventVars, reportVars>>

(* Variant: the answers in the order in which they arrive.                 *)
Join_AsTheyArrive ==
  /\ main = "join" /\ Len(joined) < Len(Collectors)
  /\ \E p \in Threads :
       /\ thread[p] \in {"returned", "panicked"}
       /\ joined' = Append(joined, IF thread[p] = "panicked" THEN Failed(p) ELSE answer[p])
  /\ UNCHANGED <<main, log, threadVars, eventVars, reportVars>>

Join ==
  /\ main = "join" /\ Len(joined) < Len(Collectors)
  /\ LET p == Collectors[Len(joined) + 1]
     IN  /\ thread[p] \in {"returned", "panicked"}
         /\ joined' = Append(joined, IF thread[p] = "panicked" THEN Failed(p) ELSE answer[p])
  /\ UNCHANGED <<main, log, threadVars, eventVars, reportVars>>

(* One note for each collector but the events, whose notes are those of    *)
(* its providers - none of them when it panicked.                          *)
FillReport ==
  /\ main = "join" /\ Len(joined) = Len(Collectors)
  /\ main' = "dumps"
  /\ notes' =
       [i \in 1 .. Len(Collectors) - 1 |-> Note(Collectors[i], joined[i])]
       \o (IF thread["Events"] = "panicked" THEN <<>> ELSE eventNotes)
  /\ timeline' = IF thread["Events"] = "panicked" THEN <<>> ELSE gathered
  /\ problems' = IF thread["Services"] = "panicked" THEN <<>> ELSE services
  /\ UNCHANGED <<joined, log, threadVars, eventVars, marked>>

ReadDumps ==
  /\ main = "dumps"
  /\ \/ /\ main' = "corroborate"
        /\ \E result \in Answers["CrashDumps"] :
             notes' = Append(notes, Note("CrashDumps", result))
     \/ /\ "CrashDumps" \in MayPanic
        /\ main' = "panicked"
        /\ UNCHANGED notes
  /\ UNCHANGED <<joined, log, threadVars, eventVars, timeline, problems, marked>>

(* Variant: only the first failure record is looked at.                    *)
Corroborate_First ==
  /\ main = "corroborate"
  /\ main' = "analyse"
  /\ marked' = {i \in DOMAIN problems :
                  timeline # <<>> /\ problems[i] \in Mentions[timeline[1]]}
  /\ UNCHANGED <<joined, log, threadVars, eventVars, notes, timeline, problems>>

(* corroborate_services: a candidate is marked when the message of one of  *)
(* the SCM failure records in the timeline contains its name.              *)
Corroborate ==
  /\ main = "corroborate"
  /\ main' = "analyse"
  /\ marked' = {i \in DOMAIN problems :
                  \E k \in DOMAIN timeline : problems[i] \in Mentions[timeline[k]]}
  /\ UNCHANGED <<joined, log, threadVars, eventVars, notes, timeline, problems>>

Analyse ==
  /\ main = "analyse"
  /\ \/ main' = "done"
     \/ "Rules" \in MayPanic /\ main' = "panicked"
  /\ UNCHANGED <<joined, log, threadVars, eventVars, reportVars>>

Finished == main \in {"done", "panicked"} /\ UNCHANGED vars

-----------------------------------------------------------------------------
EventsThread == QueryChannel \/ EndEventLog \/ QueryReliability \/ EndEvents \/ Panic("Events")
ServicesThread == CollectServices \/ Panic("Services")
PlainThread(p) == Collect(p) \/ (p \in Plain /\ Panic(p))
Caller == Spawn \/ Join \/ FillReport \/ ReadDumps \/ Corroborate \/ Analyse

Next ==
  \/ Caller
  \/ EventsThread
  \/ ServicesThread
  \/ \E p \in Plain : PlainThread(p)
  \/ Finished

Spec == Init /\ [][Next]_vars

(* Every thread is scheduled and every call into Windows returns.          *)
FairSpec ==
  /\ Spec
  /\ WF_vars(Caller) /\ WF_vars(EventsThread) /\ WF_vars(ServicesThread)
  /\ \A p \in Plain : WF_vars(PlainThread(p))

-----------------------------------------------------------------------------
(* Properties.                                                             *)

NoteSet == [provider : Threads \cup {"CrashDumps", "EventLog", "ReliabilityMonitor"},
            status : Statuses, items : Nat]

(* The variables keep their types.                                         *)
TypeOK ==
  /\ main \in {"spawn", "join", "dumps", "corroborate", "analyse", "done", "panicked"}
  /\ thread \in [Threads -> {"unborn", "running", "returned", "panicked"}]
  /\ answer \in [Threads -> (Statuses \cup {"none"}) \X Nat]
  /\ joined \in Seq(Statuses \X Nat) /\ Len(joined) <= Len(Collectors)
  /\ log \in Logs
  /\ channel \in 1 .. Channels + 3
  /\ unavailable \subseteq ChannelIds /\ cut \subseteq ChannelIds
  /\ records \in Seq(EventIds) /\ gathered \in Seq(EventIds)
  /\ eventNotes \in Seq(NoteSet) /\ notes \in Seq(NoteSet)
  /\ services \in Services \cup {<<>>} /\ problems \in Services \cup {<<>>}
  /\ timeline \in Seq(EventIds)
  /\ marked \subseteq DOMAIN problems

(* What is recorded of provider p.                                         *)
NotesOf(p) == {k \in DOMAIN notes : notes[k].provider = p}

(* Whatever fails and in whatever order the threads end, the report has    *)
(* exactly one note for each provider: what it returned, or a failure when *)
(* its thread panicked.  Only a panic of the events thread goes without a  *)
(* note, and then both its providers do.                                   *)
EventsNoted ==
  \A p \in {"EventLog", "ReliabilityMonitor"} : Cardinality(NotesOf(p)) = 1

NoSilentGap ==
  main = "done" =>
    /\ \A p \in Threads \ {"Events"} :
         /\ Cardinality(NotesOf(p)) = 1
         /\ \A k \in NotesOf(p) :
              IF thread[p] = "panicked" THEN notes[k].status = "failed"
              ELSE <<notes[k].status, notes[k].items>> = answer[p]
    /\ Cardinality(NotesOf("CrashDumps")) = 1
    /\ thread["Events"] = "returned" => EventsNoted

(* The records of channel c the scan is after: those with less than Cap    *)
(* newer ones.                                                             *)
Wanted(c) == {e \in log[c] : Cardinality({f \in log[c] : f > e}) < Cap[c]}

ReadInFull == ChannelIds \ (unavailable \cup cut)

(* The timeline is in order of time and has no two records of one key;     *)
(* nothing in it is invented or beyond a cap, and of every record wanted   *)
(* from a channel read to the end there is one with its key.               *)
TimelineIsMerged ==
  main = "done" /\ thread["Events"] = "returned" =>
    /\ \A j, k \in DOMAIN timeline :
         j < k => /\ Time[timeline[j]] <= Time[timeline[k]]
                  /\ Key[timeline[j]] # Key[timeline[k]]
    /\ \A k \in DOMAIN timeline :
         timeline[k] \in log[Reliability] \cup UNION {Wanted(c) : c \in ChannelIds \ unavailable}
    /\ \A c \in ReadInFull : \A e \in Wanted(c) :
         \E k \in DOMAIN timeline : Key[timeline[k]] = Key[e]

(* A service that a record names stays unmarked only when another record   *)
(* with the key of that one was kept in its place.                         *)
UnmarkedOnlyByDedup ==
  main = "done" /\ thread["Events"] = "returned" =>
    \A i \in DOMAIN problems \ marked : \A c \in ReadInFull : \A e \in Wanted(c) :
      problems[i] \in Mentions[e] =>
        \E k \in DOMAIN timeline : timeline[k] # e /\ Key[timeline[k]] = Key[e]

(* What a collector may answer.                                            *)
Given(p) ==
  IF p = "Services" THEN {<<"complete", Len(list)>> : list \in Services} \cup {<<"failed", 0>>}
  ELSE IF p = "Events" THEN {"complete"} \X (0 .. Events)
  ELSE Answers[p]

(* However the threads interleave and whichever panic, the report is drawn *)
(* from the answers SequentialScan would have: one for each collector, in  *)
(* the order of the report, those of the others untouched by a panic.      *)
Sequential == INSTANCE SequentialScan WITH
  Order    <- Collectors,
  Answers  <- [p \in Threads |-> Given(p)],
  Failure  <- [p \in Threads |-> Failed(p)],
  answered <- joined,
  stage    <- IF main = "done" THEN "reported"
              ELSE IF main = "panicked" THEN "lost" ELSE "asking"

ImplementsSequentialScan == Sequential!Spec

(* The most steps the scan still has to make: those of the calling thread, *)
(* the answers to join, the threads to end and the logs to query.          *)
CallerSteps ==
  [spawn |-> 5, join |-> 4, dumps |-> 3, corroborate |-> 2, analyse |-> 1, done |-> 0, panicked |-> 0]

Busy == {p \in Threads : thread[p] \in {"unborn", "running"}}

Remaining ==
  CallerSteps[main] + (Len(Collectors) - Len(joined)) + Cardinality(Busy) + (Channels + 3 - channel)

(* Nothing is asked, read or joined twice: whatever fails, each step brings *)
(* the scan closer to its end, so that it can make finitely many only.      *)
ScanAdvances == [][Remaining' \in 0 .. Remaining - 1]_vars

(* Whatever panics, no join waits for ever: the scan ends.                 *)
ScanEnds == <>(main \in {"done", "panicked"})
=============================================================================
