------------------------------ MODULE Monitor ------------------------------
(***************************************************************************)
(* `winsleuth monitor`: the main thread (signal handler, tray, message     *)
(* pump, join), the worker thread running watch_loop, and the parts of     *)
(* Windows they talk to - the event log subscription with its auto-reset   *)
(* signal, the dump directory notifications, the count of present devices. *)
(*                                                                         *)
(* The worker is a sequential program; pc names its next step.  Time is in *)
(* seconds and passes only where the worker waits: in the one-second poll  *)
(* and in the webhook call.                                                *)
(***************************************************************************)
EXTENDS Integers, Sequences

CONSTANTS
  Window,            \* seconds alerts are held (30 in watch_loop)
  DeviceInterval,    \* seconds between device counts (--interval, at least 5)
  Depth,             \* telemetry samples kept (TELEMETRY_DEPTH)
  Outputs,           \* the optional outputs configured: "log", "webhook"
  DeviceCounts,      \* the device counts the machine can show
  RenderMayFail,     \* may an event fail to render or parse?
  DrainMayFail,      \* may EvtNext fail while records are left?
  ConsoleMayClose,   \* may stdout be closed (println! then panics)?
  MaxPost,           \* longest webhook call, in seconds
  MaxRecords,        \* bound: records logged while monitoring
  MaxNotices,        \* bound: notifications from the dump directory
  MaxChanges         \* bound: times the device count changes or cannot be read

ASSUME TimingAssumption ==
  /\ Window \in Nat \ {0}
  /\ DeviceInterval \in Nat \ {0}
  /\ Depth \in Nat \ {0}
  /\ MaxPost \in Nat

ASSUME EnvironmentAssumption ==
  /\ Outputs \subseteq {"log", "webhook"}
  /\ DeviceCounts \subseteq Nat
  /\ {RenderMayFail, DrainMayFail, ConsoleMayClose} \subseteq BOOLEAN
  /\ MaxRecords \in Nat
  /\ MaxNotices \in Nat
  /\ MaxChanges \in Nat

Channel == {"console", "toast", "log", "webhook"}

Counts == DeviceCounts \cup {0}

Notice == [kind : {"dump", "other", "error"}, id : 1 .. MaxNotices]

Detection ==
  [kind : {"event"}, id : 1 .. MaxRecords] \cup
  [kind : {"dump"}, id : 1 .. MaxNotices] \cup
  [kind : {"device"}, present : Counts, previous : Counts]

VARIABLES
  (* Windows *)
  logged,            \* how many matching records were logged so far
  eventQueue,        \* records the subscription holds, by number
  signalled,         \* the subscription's auto-reset event
  noticed,           \* how many dump directory notifications were sent
  dumpQueue,         \* the notify channel
  present,           \* devices present now
  changes,           \* how often that changed or could not be read
  (* main thread and the flag it shares with the worker *)
  main,              \* "setup", "pump", "join", "stopped"
  shutdown,
  (* worker thread *)
  pc,
  subscribed,        \* did EvtSubscribe succeed?
  watching,          \* did watch_dumps succeed?
  pending,           \* AlertBuffer.pending
  outbox,            \* the batch being delivered
  deviceCount,
  samples,           \* telemetry samples held
  sinceFlush,        \* seconds since AlertBuffer.last_flush, at most Window
  sinceDevices,      \* seconds since last_device_check, at most DeviceInterval
  (* history *)
  detected,          \* everything ever pushed into the buffer
  received,          \* what each output has been given
  drainCut,          \* did the last drain end on an error, with records left?
  failed,            \* outputs that have failed at least once
  held               \* seconds the oldest pending detection waits, at most Window

osVars      == <<logged, eventQueue, signalled, noticed, dumpQueue, present, changes>>
mainVars    == <<main, shutdown>>
sourceVars  == <<subscribed, watching, drainCut>>
bufferVars  == <<pending, sinceFlush, detected, held>>
deviceVars  == <<deviceCount, sinceDevices>>
outputVars  == <<outbox, received, failed>>
workerVars  == <<pc, sourceVars, bufferVars, deviceVars, samples, outputVars>>
vars        == <<osVars, mainVars, workerVars>>

WorkerEnded == pc \in {"done", "panicked"}

AtMost(n, bound) == IF n < bound THEN n ELSE bound

Init ==
  /\ logged = 0 /\ eventQueue = <<>> /\ signalled = FALSE
  /\ noticed = 0 /\ dumpQueue = <<>>
  /\ present \in DeviceCounts /\ changes = 0
  /\ main = "setup" /\ shutdown = FALSE
  /\ pc = "unborn"
  /\ subscribed = FALSE /\ watching = FALSE /\ drainCut = FALSE
  /\ pending = <<>> /\ outbox = <<>>
  /\ deviceCount = 0 /\ samples = 0
  /\ sinceFlush = 0 /\ sinceDevices = 0
  /\ detected = <<>> /\ held = 0
  /\ received = [c \in Channel |-> <<>>]
  /\ failed = {}

-----------------------------------------------------------------------------
(* Windows.                                                                *)

RecordLogged ==
  /\ subscribed /\ ~WorkerEnded /\ logged < MaxRecords
  /\ logged' = logged + 1
  /\ eventQueue' = Append(eventQueue, logged')
  /\ signalled' = TRUE
  /\ UNCHANGED <<noticed, dumpQueue, present, changes, mainVars, workerVars>>

(* A .dmp file was created or written, or something else happened in the   *)
(* directory, or notify reports an error.                                  *)
DumpNotified ==
  /\ watching /\ ~WorkerEnded /\ noticed < MaxNotices
  /\ noticed' = noticed + 1
  /\ \E kind \in {"dump", "other", "error"} :
       dumpQueue' = Append(dumpQueue, [kind |-> kind, id |-> noticed'])
  /\ UNCHANGED <<logged, eventQueue, signalled, present, changes, mainVars, workerVars>>

DevicesChange ==
  /\ changes < MaxChanges
  /\ changes' = changes + 1
  /\ present' \in DeviceCounts \ {present}
  /\ UNCHANGED <<logged, eventQueue, signalled, noticed, dumpQueue, mainVars, workerVars>>

Windows == RecordLogged \/ DumpNotified \/ DevicesChange

-----------------------------------------------------------------------------
(* The main thread, and whoever asks the monitor to stop.                  *)

(* The Ctrl+C handler and the tray's Quit item only set the flag.          *)
RequestShutdown ==
  /\ ~shutdown
  /\ shutdown' = TRUE
  /\ UNCHANGED <<osVars, main, workerVars>>

SpawnWorker ==
  /\ main = "setup" /\ pc = "unborn"
  /\ main' = "pump" /\ pc' = "open"
  /\ UNCHANGED <<osVars, shutdown, sourceVars, bufferVars, deviceVars, samples, outputVars>>

LeavePump ==
  /\ main = "pump" /\ shutdown
  /\ main' = "join"
  /\ UNCHANGED <<osVars, shutdown, workerVars>>

(* join() returns whether the worker finished or panicked; the result is   *)
(* discarded.                                                              *)
JoinWorker ==
  /\ main = "join" /\ WorkerEnded
  /\ main' = "stopped"
  /\ UNCHANGED <<osVars, shutdown, workerVars>>

MainThread == SpawnWorker \/ LeavePump \/ JoinWorker

-----------------------------------------------------------------------------
(* The worker: watch_loop.                                                 *)

Push(d) ==
  /\ pending' = Append(pending, d)
  /\ detected' = Append(detected, d)
  /\ UNCHANGED <<sinceFlush, held>>

Elapse(seconds) ==
  /\ sinceFlush' = AtMost(sinceFlush + seconds, Window)
  /\ sinceDevices' = AtMost(sinceDevices + seconds, DeviceInterval)
  /\ held' = IF pending = <<>> THEN 0 ELSE AtMost(held + seconds, Window)

(* present_device_count returns 0 when SetupAPI refuses.                   *)
CountDevices(count) ==
  \/ count = present /\ UNCHANGED changes
  \/ count = 0 /\ changes < MaxChanges /\ changes' = changes + 1

(* Subscribe, watch the dump directory, count the devices.  Either of the  *)
(* first two may fail; the loop then runs without it.                      *)
OpenSources ==
  /\ pc = "open"
  /\ subscribed' \in BOOLEAN
  /\ watching' \in BOOLEAN
  /\ deviceCount' \in Counts /\ CountDevices(deviceCount')
  /\ pc' = "loop"
  /\ UNCHANGED <<logged, eventQueue, signalled, noticed, dumpQueue, present, mainVars,
                 drainCut, bufferVars, sinceDevices, samples, outputVars>>

(* Variant of BeginTick: the loop does not look at the shutdown flag.      *)
BeginTick_Forever ==
  /\ pc = "loop"
  /\ samples' = AtMost(samples + 1, Depth)
  /\ pc' = "poll"
  /\ UNCHANGED <<osVars, mainVars, sourceVars, bufferVars, deviceVars, outputVars>>

BeginTick ==
  /\ pc = "loop" /\ ~shutdown
  /\ samples' = AtMost(samples + 1, Depth)
  /\ pc' = "poll"
  /\ UNCHANGED <<osVars, mainVars, sourceVars, bufferVars, deviceVars, outputVars>>

(* WaitForSingleObject returns WAIT_OBJECT_0 and resets the event.         *)
PollSignalled ==
  /\ pc = "poll" /\ subscribed /\ signalled
  /\ signalled' = FALSE
  /\ \E seconds \in 0 .. 1 : Elapse(seconds)
  /\ pc' = "drain"
  /\ drainCut' = FALSE
  /\ UNCHANGED <<logged, eventQueue, noticed, dumpQueue, present, changes, mainVars,
                 subscribed, watching, pending, detected, deviceCount, samples, outputVars>>

(* The poll times out, or there is no subscription and the worker sleeps.  *)
PollTimesOut ==
  /\ pc = "poll" /\ ~(subscribed /\ signalled)
  /\ Elapse(1)
  /\ pc' = "dumps"
  /\ UNCHANGED <<osVars, mainVars, sourceVars, pending, detected, deviceCount, samples,
                 outputVars>>

(* EvtNext hands out the records one batch after another until there are   *)
(* none; a record that does not render is closed and forgotten.            *)
DrainRecord ==
  /\ pc = "drain" /\ eventQueue # <<>>
  /\ eventQueue' = Tail(eventQueue)
  /\ \/ Push([kind |-> "event", id |-> Head(eventQueue)])
     \/ RenderMayFail /\ UNCHANGED bufferVars
  /\ UNCHANGED <<logged, signalled, noticed, dumpQueue, present, changes, mainVars, pc,
                 sourceVars, deviceVars, samples, outputVars>>

(* Variant of DrainEnds: one successful EvtNext call instead of a loop.    *)
DrainEnds_OneCall ==
  /\ pc = "drain"
  /\ pc' = "dumps"
  /\ UNCHANGED <<osVars, mainVars, sourceVars, bufferVars, deviceVars, samples, outputVars>>

(* EvtNext hands out nothing more: there is nothing more, or it failed and *)
(* what is left stays behind a signal that was reset before the drain.     *)
DrainEnds ==
  /\ pc = "drain" /\ (eventQueue = <<>> \/ DrainMayFail)
  /\ drainCut' = (eventQueue # <<>>)
  /\ pc' = "dumps"
  /\ UNCHANGED <<osVars, mainVars, subscribed, watching, bufferVars, deviceVars, samples,
                 outputVars>>

(* Variant of TakeNotice: an Err item throws away what is queued behind it. *)
TakeNotice_ErrorDropsQueue ==
  /\ pc = "dumps" /\ dumpQueue # <<>>
  /\ dumpQueue' = IF Head(dumpQueue).kind = "error" THEN <<>> ELSE Tail(dumpQueue)
  /\ pc' = IF Head(dumpQueue).kind = "error" THEN "devices" ELSE pc
  /\ IF Head(dumpQueue).kind = "dump" THEN Push(Head(dumpQueue)) ELSE UNCHANGED bufferVars
  /\ UNCHANGED <<logged, eventQueue, signalled, noticed, present, changes, mainVars,
                 sourceVars, deviceVars, samples, outputVars>>

(* `while let Ok(Ok(event)) = try_recv()`: an Err item is consumed and ends *)
(* the drain, leaving what is behind it for the next tick.                 *)
TakeNotice ==
  /\ pc = "dumps" /\ dumpQueue # <<>>
  /\ dumpQueue' = Tail(dumpQueue)
  /\ pc' = IF Head(dumpQueue).kind = "error" THEN "devices" ELSE pc
  /\ IF Head(dumpQueue).kind = "dump" THEN Push(Head(dumpQueue)) ELSE UNCHANGED bufferVars
  /\ UNCHANGED <<logged, eventQueue, signalled, noticed, present, changes, mainVars,
                 sourceVars, deviceVars, samples, outputVars>>

DumpsEmpty ==
  /\ pc = "dumps" /\ dumpQueue = <<>>
  /\ pc' = "devices"
  /\ UNCHANGED <<osVars, mainVars, sourceVars, bufferVars, deviceVars, samples, outputVars>>

(* Variant of CheckDevices: the new count is reported but not remembered.  *)
CheckDevices_CountNotKept ==
  /\ pc = "devices"
  /\ UNCHANGED deviceCount
  /\ IF sinceDevices < DeviceInterval
     THEN UNCHANGED <<bufferVars, sinceDevices, changes>>
     ELSE \E count \in Counts :
            /\ CountDevices(count)
            /\ sinceDevices' = 0
            /\ IF count = deviceCount
               THEN UNCHANGED bufferVars
               ELSE Push([kind |-> "device", present |-> count, previous |-> deviceCount])
  /\ pc' = "flush"
  /\ UNCHANGED <<logged, eventQueue, signalled, noticed, dumpQueue, present, mainVars,
                 sourceVars, samples, outputVars>>

CheckDevices ==
  /\ pc = "devices"
  /\ IF sinceDevices < DeviceInterval
     THEN UNCHANGED <<bufferVars, deviceVars, changes>>
     ELSE \E count \in Counts :
            /\ CountDevices(count)
            /\ sinceDevices' = 0
            /\ deviceCount' = count
            /\ IF count = deviceCount
               THEN UNCHANGED bufferVars
               ELSE Push([kind |-> "device", present |-> count, previous |-> deviceCount])
  /\ pc' = "flush"
  /\ UNCHANGED <<logged, eventQueue, signalled, noticed, dumpQueue, present, mainVars,
                 sourceVars, samples, outputVars>>

IsUrgent(d) == d.kind = "dump"

(* Variants of ShouldFlush: only the window, or only urgency, decides.     *)
ShouldFlush_WindowOnly == pending # <<>> /\ sinceFlush >= Window
ShouldFlush_UrgentOnly == \E i \in DOMAIN pending : IsUrgent(pending[i])

ShouldFlush ==
  /\ pending # <<>>
  /\ \/ \E i \in DOMAIN pending : IsUrgent(pending[i])
     \/ sinceFlush >= Window

(* Variants of Take: the buffer is copied rather than emptied; only the    *)
(* newest detection is handed out.                                         *)
Take_Copies ==
  /\ outbox' = pending
  /\ sinceFlush' = 0
  /\ held' = 0
  /\ UNCHANGED <<pending, detected>>
Take_NewestOnly ==
  /\ outbox' = <<pending[Len(pending)]>>
  /\ pending' = <<>>
  /\ sinceFlush' = 0
  /\ held' = 0
  /\ UNCHANGED detected

(* AlertBuffer::take, into the batch that deliver() is given.              *)
Take ==
  /\ outbox' = pending
  /\ pending' = <<>>
  /\ sinceFlush' = 0
  /\ held' = 0
  /\ UNCHANGED detected

Flush ==
  /\ pc = "flush" /\ ShouldFlush
  /\ Take
  /\ pc' = "announce"
  /\ UNCHANGED <<osVars, mainVars, sourceVars, deviceVars, samples, received, failed>>

Hold ==
  /\ pc = "flush" /\ ~ShouldFlush
  /\ pc' = "loop"
  /\ UNCHANGED <<osVars, mainVars, sourceVars, bufferVars, deviceVars, samples, outputVars>>

(* The loop ends; what is still buffered goes out.                         *)
FinalFlush ==
  /\ pc = "loop" /\ shutdown
  /\ IF pending = <<>>
     THEN pc' = "done" /\ UNCHANGED <<bufferVars, outbox>>
     ELSE pc' = "lastAnnounce" /\ Take
  /\ UNCHANGED <<osVars, mainVars, sourceVars, deviceVars, samples, received, failed>>

-----------------------------------------------------------------------------
(* deliver(): console, toast, log, webhook, in this order.  The steps of   *)
(* the delivery after the loop carry a name of their own.                  *)

Given(c) == [received EXCEPT ![c] = @ \o outbox]

AnnouncePc == {"announce", "lastAnnounce"}
LogPc      == {"log", "lastLog"}
WebhookPc  == {"webhook", "lastWebhook"}

(* Print the batch and show the toast, whose result is ignored.            *)
Announce ==
  /\ pc \in AnnouncePc
  /\ \/ /\ received' = [Given("console") EXCEPT !["toast"] = @ \o outbox]
        /\ UNCHANGED failed
     \/ /\ received' = Given("console")
        /\ failed' = failed \cup {"toast"}
  /\ pc' = IF pc = "announce" THEN "log" ELSE "lastLog"
  /\ UNCHANGED <<osVars, mainVars, sourceVars, bufferVars, deviceVars, samples, outbox>>

(* println! to a closed stdout panics and ends the thread.                 *)
ConsoleClosed ==
  /\ ConsoleMayClose /\ pc \in AnnouncePc
  /\ pc' = "panicked"
  /\ UNCHANGED <<osVars, mainVars, sourceVars, bufferVars, deviceVars, samples, outputVars>>

(* Variant of WriteLog: a failed log ends the delivery.                    *)
WriteLog_ReturnsEarly ==
  /\ pc \in LogPc
  /\ \/ /\ "log" \in Outputs
        /\ received' = Given("log")
        /\ pc' = IF pc = "log" THEN "webhook" ELSE "lastWebhook"
        /\ UNCHANGED <<failed, outbox>>
     \/ /\ "log" \in Outputs
        /\ failed' = failed \cup {"log"}
        /\ pc' = IF pc = "log" THEN "loop" ELSE "done"
        /\ outbox' = <<>>
        /\ UNCHANGED received
  /\ UNCHANGED <<osVars, mainVars, sourceVars, bufferVars, deviceVars, samples>>

WriteLog ==
  /\ pc \in LogPc
  /\ \/ "log" \notin Outputs /\ UNCHANGED <<received, failed>>
     \/ "log" \in Outputs /\ received' = Given("log") /\ UNCHANGED failed
     \/ "log" \in Outputs /\ failed' = failed \cup {"log"} /\ UNCHANGED received
  /\ pc' = IF pc = "log" THEN "webhook" ELSE "lastWebhook"
  /\ UNCHANGED <<osVars, mainVars, sourceVars, bufferVars, deviceVars, samples, outbox>>

EndDelivery ==
  /\ outbox' = <<>>
  /\ pc' = IF pc = "webhook" THEN "loop" ELSE "done"

NoWebhook ==
  /\ pc \in WebhookPc /\ "webhook" \notin Outputs
  /\ EndDelivery
  /\ UNCHANGED <<osVars, mainVars, sourceVars, bufferVars, deviceVars, samples, received, failed>>

(* The server answers, or the post fails - before or after the server got  *)
(* the payload.  ureq::post is used without a timeout, so this step is the *)
(* server's to take.                                                       *)
WebhookAnswers ==
  /\ pc \in WebhookPc /\ "webhook" \in Outputs
  /\ received' \in {received, Given("webhook")}
  /\ failed' \in {failed, failed \cup {"webhook"}}
  /\ received' = received => "webhook" \in failed'
  /\ \E seconds \in 0 .. MaxPost : Elapse(seconds)
  /\ EndDelivery
  /\ UNCHANGED <<osVars, mainVars, sourceVars, pending, detected, deviceCount, samples>>

-----------------------------------------------------------------------------
Worker ==
  \/ OpenSources \/ BeginTick \/ PollSignalled \/ PollTimesOut
  \/ DrainRecord \/ DrainEnds \/ TakeNotice \/ DumpsEmpty \/ CheckDevices
  \/ Flush \/ Hold \/ FinalFlush
  \/ Announce \/ ConsoleClosed \/ WriteLog \/ NoWebhook

Stopped == main = "stopped" /\ UNCHANGED vars

Next == Windows \/ RequestShutdown \/ MainThread \/ Worker \/ WebhookAnswers \/ Stopped

(* Both threads are scheduled; nothing forces Windows or the user to act.  *)
ThreadFairness == WF_vars(MainThread) /\ WF_vars(Worker)

Spec == Init /\ [][Next]_vars
SilentSpec == Spec /\ ThreadFairness
FairSpec == SilentSpec /\ WF_vars(WebhookAnswers)

-----------------------------------------------------------------------------
(* Properties.                                                             *)

TypeOK ==
  /\ logged \in 0 .. MaxRecords /\ eventQueue \in Seq(1 .. MaxRecords)
  /\ signalled \in BOOLEAN
  /\ noticed \in 0 .. MaxNotices /\ dumpQueue \in Seq(Notice)
  /\ present \in DeviceCounts /\ changes \in 0 .. MaxChanges
  /\ main \in {"setup", "pump", "join", "stopped"} /\ shutdown \in BOOLEAN
  /\ pc \in {"unborn", "open", "loop", "poll", "drain", "dumps", "devices", "flush",
             "done", "panicked"} \cup AnnouncePc \cup LogPc \cup WebhookPc
  /\ {subscribed, watching, drainCut} \subseteq BOOLEAN
  /\ pending \in Seq(Detection) /\ outbox \in Seq(Detection)
  /\ deviceCount \in Counts /\ samples \in 0 .. Depth
  /\ sinceFlush \in 0 .. Window /\ sinceDevices \in 0 .. DeviceInterval
  /\ detected \in Seq(Detection) /\ held \in 0 .. Window
  /\ received \in [Channel -> Seq(Detection)]
  /\ failed \in SUBSET Channel

(* Nothing detected is lost, doubled or reordered: what was detected is    *)
(* what was printed, then the batch on its way to be printed, then what    *)
(* the buffer holds.  Only a panic while printing can cost a batch, and    *)
(* then it is still in outbox (AlertBuffer, watch_loop, deliver).          *)
Unprinted == IF pc \in AnnouncePc \cup {"panicked"} THEN outbox ELSE <<>>
NothingLost == detected = (received["console"] \o Unprinted) \o pending

(* An output that never failed misses nothing, whatever the others did:    *)
(* deliver() goes on after a failed toast, log or webhook.                 *)
Unlogged == IF pc \in LogPc THEN outbox ELSE <<>>
Unposted == IF pc \in LogPc \cup WebhookPc THEN outbox ELSE <<>>
FailuresStayLocal ==
  /\ "toast" \notin failed => received["toast"] = received["console"]
  /\ "log" \in Outputs \ failed => received["log"] \o Unlogged = received["console"]
  /\ "webhook" \in Outputs \ failed => received["webhook"] \o Unposted = received["console"]

(* A record waiting in the subscription has the worker's attention - it is *)
(* draining right now - or the signal that will get it.  The one thing     *)
(* that leaves it with neither is a drain that EvtNext cut short: the      *)
(* event was reset before, and nothing sets it again but the next record.  *)
NoLostWakeup == eventQueue # <<>> => signalled \/ pc = "drain" \/ drainCut

(* Once round the loop nothing urgent is left in the buffer, and what is   *)
(* left has waited less than the window ("A crash dump always alerts       *)
(* immediately", USER_GUIDE.md).                                           *)
HeldBriefly ==
  pc \in {"loop", "poll"} =>
    /\ \A i \in DOMAIN pending : ~IsUrgent(pending[i])
    /\ pending # <<>> => held < Window

(* When the worker ends normally, everything detected has been announced:  *)
(* "Anything still buffered goes out rather than being dropped on exit."   *)
NothingHeldAtExit == pc = "done" => detected = received["console"]

(* The device reports form a chain from one count to the next that ends in *)
(* the count the worker holds, and each reports a difference.              *)
DeviceReports == {i \in DOMAIN detected : detected[i].kind = "device"}
DeviceReportsChain ==
  \A i \in DeviceReports :
    LET later == {j \in DeviceReports : j > i}
    IN /\ detected[i].present # detected[i].previous
       /\ \A j \in later :
            (\A k \in later : j <= k) => detected[j].previous = detected[i].present
       /\ later = {} => detected[i].present = deviceCount

(* The monitor implements AlertDelivery: printing is what announces, and   *)
(* only a closed stdout makes it break down.                               *)
Alerts == INSTANCE AlertDelivery WITH
  announced <- received["console"], broken <- pc = "panicked"
DeliversSafely == Alerts!SafeSpec
DeliversAlerts == Alerts!Spec

Over == shutdown \/ pc = "panicked"

(* A record that was logged while the monitor runs is announced, unless    *)
(* the user stops the monitor or closes its console first, or EvtNext cuts *)
(* the drain short and no record follows: it is left with a clear signal,  *)
(* and goes out with the next one that arrives.                            *)
Announced(kind, n) ==
  \E i \in DOMAIN received["console"] :
    received["console"][i].kind = kind /\ received["console"][i].id = n
LeftBehind(n) ==
  /\ n \in {eventQueue[i] : i \in DOMAIN eventQueue}
  /\ drainCut /\ ~signalled
RecordsAreAnnounced ==
  \A n \in 1 .. MaxRecords :
    logged >= n ~> Announced("event", n) \/ LeftBehind(n) \/ Over

(* A dump notification that reaches the channel is announced, unless the   *)
(* user stops the monitor first; an Err item only delays it.               *)
Queued(n) == \E i \in DOMAIN dumpQueue : dumpQueue[i] = [kind |-> "dump", id |-> n]
DumpsAreAnnounced ==
  \A n \in 1 .. MaxNotices : Queued(n) ~> Announced("dump", n) \/ Over

(* Whatever happened, in whichever of the two ways it was noticed, the     *)
(* user learns of it.                                                      *)
EventsAreAnnounced == RecordsAreAnnounced /\ DumpsAreAnnounced

(* Asked to stop - Ctrl+C or Quit - the monitor stops ("Stop it with       *)
(* Ctrl+C, or with Quit on the tray icon", USER_GUIDE.md).                 *)
StopsWhenAsked == shutdown ~> main = "stopped"

=============================================================================
