# WinSleuth: a verification project

WinSleuth is a Windows crash investigator written in Rust. It collects evidence
(drivers, event logs, crash dumps, services, devices), correlates it, derives
root causes with rules and scores, reports them, keeps its reports to compare
with, arms Driver Verifier against suspects, and watches the machine live.
This directory holds TLA+ models of the parts whose behaviour is more than one
function deep, the TLC configurations that check them on small instances, and
TLAPS proofs of what holds for every instance. Paths are relative to the
repository (`src/` in `PROJECT.json`); `rules.rs`, `engine.rs` and so on are
under `src/modules/`.

To run: `tlc -workers 2 -config <X>.cfg <MC module>` for the runs named in
`PROJECT.json`, and `tlapm <X>Proofs.tla` for the proofs.

## 1. Inventory

| Part | Code | State it keeps | Operations | Talks to | What is hard | What makes it correct |
|---|---|---|---|---|---|---|
| Live monitor | `main.rs` 306-524, `core/watcher.rs` | shutdown flag, subscription and its event, notify channel, alert buffer, device count, telemetry ring | tick, poll, drain, push, flush, deliver, stop | event log service (signal), `notify` (channel), SetupAPI, webhook server, console and toast | two threads and the OS; outputs that fail or hang; shutdown at any point | nothing detected is lost, doubled or held too long; no wakeup lost but by a failed drain; it stops when asked |
| Scan engine | `core/engine.rs` | eight threads, notes, report | fan out, join, read dumps, corroborate, analyse | every provider, the analysis | order of ending, panics | a concurrent scan is a sequential one; no gap is silent |
| Event log and reliability readers | `providers/eventlog_reader.rs`, `reliability_reader.rs` | handles of a query | query, batch, cap, de-duplicate, sort | Windows event log, WMI | failing between batches, caps, double de-duplication | the timeline is the merge of the newest records |
| Service inspector | `providers/service_inspector.rs` | resume handle and buffer of one enumeration | probe, fetch page, judge, sort | service control manager | pages sized by a probe of their own while services come and go | every service that stays failed is found, once; the loop ends |
| Device inspector | `providers/device_inspector.rs` | position in the device list | list, ask status, ask name, sort | configuration manager | a device that goes between two questions | one device never costs another |
| Change tracker | `providers/change_tracker.rs` | list under construction | hotfixes, three uninstall keys, INF directory, sort, de-duplicate | WMI, registry, file system | entries that come and go, dates without a time, equal entries apart | what was installed throughout is listed unless the walk was shifted, nothing invented |
| Driver inventory | `providers/driver_inventory.rs` | queue, per-thread lists, shared list | query, merge, take, enrich, publish, sort | WMI, PSAPI, signature check, corpus | thread pool, panics, two sources that overlap | every image once, in order, or none |
| Crash correlation, changepoint | `analysis/correlation_engine.rs`, `changepoint.rs` | windows | correlate, split | scan engine | one crash seen several times, minutes apart | one window per crash; the sharpest rise |
| Rules, scoring | `analysis/rules.rs`, `core/scoring.rs` | findings, causes | sixteen rules, group, score, rank | scan engine, reports | rules reading the same evidence independently | rules agree with the windows; no verdict without evidence; more findings never lower a score |
| Crash dumps | `providers/minidump_reader.rs`, `triage.rs`, `analysis/bugcheck.rs` | - | list, stat, read, attribute | file system; rules and verifier use the result | files that vanish, are cut off or lie; images that move between boots | who a kernel dump names was executing; what is complete misses no dump |
| Driver Verifier | `verifier.rs`, `main.rs` 643-704 | plan; Windows keeps what is armed | plan, notice, confirm, arm, off | a scan; verifier.exe | acts over reboots on what another boot's dump said | arms only announced suspects |
| Snapshot store | `core/store.rs`, `main.rs` 100-140, 551-580 | snapshot files | save, list, previous, load | processes through one directory | concurrent processes, kills, full disk | a saved scan stays; the diff takes the last |
| Snapshot comparison | `core/store.rs` 123-187 | - | diff | diff command | names that occur twice or in another case | the old report with the difference applied is the new one |
| LOLDrivers corpus | `analysis/loldrivers.rs` | corpus file, copy per process | fetch, write, load once, match | driver examination, network | file written in place, copy kept for the life of a process | a fetched build is flagged; of one hash all drivers of a report are told one thing |
| Signature check | `providers/signature.rs` | catalog context of a thread | ask catalog, ask file | WinTrust, catalogs | files replaced between two openings, a context that was never acquired | signed means signed, unsigned means without a signature |
| Desktop interface | `ui_layer/ui.rs` | `ScanState` behind a mutex, requested frames | click, draw, scan thread, panic, repaint | scan engine on a thread | state read while a scan ends | every scan comes to the screen |
| Support bundle | `ui_layer/bundle.rs` | archive | create, add text, redact, add dump, finish | `collect`, file system | failing between entries, dumps that go or share a name, names within paths | written means whole; names are replaced, also in what a failure leaves |
| System, firmware and security posture, privileges | `providers/*`, `core/privilege.rs` | - | one query each | Windows | failures | the status they report |
| Reports, command line | `ui_layer/reporting.rs`, `html_report.rs`, `cli.rs`, `main.rs` | - | render, parse | - | - | layout |

How they interact. `scan`, `diff`, `collect`, `verify` and the desktop interface
all call `WinSleuthEngine::run_scan`, which starts the providers on threads of
one scope and is alone once they are joined; the driver provider has a thread
pool of its own inside its thread. The finished collection goes through
correlation, changepoint, rules and scoring on the calling thread. Processes
share only the data directory (snapshots, corpus). `collect` packs a finished
report into an archive. `monitor` uses none of this:
it has a main thread for signals and window messages and one worker.

## 2. Plan and order of the modules

The monitor comes first, being the only part that runs for weeks with threads,
signals and failing outputs; then the two thread pools of a scan, since every
command depends on them; then the persistent state, the analysis that turns a
collection into a verdict, and the one command that can leave a machine unable to
boot, with the dump reader that feeds it; then what the thread of a driver does
with one file while files and corpus change, under the desktop interface that
starts scans over and over; and last the collectors and the bundle that are one
thread each, raced by the system they read.

| Module | Models | Abstract specification | Proofs |
|---|---|---|---|
| `Monitor` | main thread, worker and outputs of `winsleuth monitor` | `AlertDelivery`: detections are announced in batches, in order, once | `MonitorProofs` |
| `DriverInventory` | `collect_drivers`, merge and thread pool | `DriverListing`: all images, each once, by name, or none | `DriverInventoryProofs` |
| `ScanEngine` | `run_scan`, event and reliability readers, service answers, corroboration | `SequentialScan`: ask each collector in turn | `ScanEngineProofs` |
| `SnapshotStore` | the scans' files, `diff`'s choice and the comparison | - | `SnapshotStoreProofs` |
| `DiagnosticRules`, `Scoring` | the rules and the score as operators | - | used below |
| `Analysis` (extends `Scoring`, which extends `DiagnosticRules`) | correlation, changepoint, evaluation, combination | reference definitions within the properties | `AnalysisProofs` |
| `CrashDumps` | one dump's record, as operators | - | used below |
| `Verification` (extends `CrashDumps`) | boots, crashes and dumps; a scan of the dumps and the Verifier run that uses it | - | `VerificationProofs` |
| `Corpus` | the corpus file, its update, the copy of a process and the match | - | used below |
| `DriverFile` | signature ladder, version, size and category of one file, as operators | - | used below |
| `Desktop` (extends `Corpus` and `DriverFile`) | window, scan thread, `enrich_one` opening by opening, replacements, updates | - | `DesktopProofs` |
| `Ordering` | what sorting and filtering a list returns, as operators | - | used below |
| `ServiceInspector`, `DeviceInspector`, `ChangeTracker`, `Bundle` | one collector each, and the archive | - | - |
| `Parts` (extends these four) | one of the four per behaviour | - | `PartsProofs` |

What one module takes from another it has as a constant: `ScanEngine` takes the
answer of a collector from `Answers`, `Analysis` a finished collection from
`Reports`, `Verification` the other evidence on a driver from `Flagged`,
`SnapshotStore` the results of scans from `Machines`, `Bundle` the contents of a
report from `Messages`.

Left for later:

- The events a crash window lists around its crash (`correlation_engine.rs`
  66-93) and the merging of evidence in `scoring.rs`.

## 3. How the modules correspond to the code

`PROJECT.json` "map" names the lines of every definition. In outline:

**Monitor.** `main` is the main thread of `monitor()` (spawn, pump, join), `pc`
the worker's place in `watch_loop`: `BeginTick` is the loop head with the
telemetry sample, `PollSignalled`/`PollTimesOut` the wait on the subscription,
`DrainRecord`/`DrainEnds` one `EvtNext` each (one that fails ends the drain with
records left, `DrainMayFail`), `TakeNotice`/`DumpsEmpty` the `try_recv` loop, `CheckDevices` the device count, `Flush`/`Hold` the decision
after `should_flush`, `FinalFlush` what follows the loop. `deliver()` is
`Announce` (console and toast), `WriteLog`, then `NoWebhook` or
`WebhookAnswers`; its second copy after the loop has the labels `last...`. The
auto-reset event is `signalled`: Windows sets it with a record, the poll clears
it, before the drain. Time passes only where the worker waits. `detected`,
`received`, `drainCut` (the last drain ended on an error), `failed` and `held` are
history. A summary prints at most four headlines, so "announced"
means contained in a delivered message.

**DriverInventory.** `collector` walks through `collect_drivers`; `Merge` writes
an address into the first candidate with that path or appends one; each
`worker[w]` runs take, enrich, publish; `ScopePanics` is a join of the scope that
finds a panicked thread. The order of a stable sort by name over a list in
scheduling order is any arrangement sorted by name. Here `enrich_one` is one step;
`Desktop` takes it apart.

**ScanEngine.** `thread`/`answer` are the join handles, `joined` what the calling
thread has taken from them, in its order. The events thread is stepwise:
`QueryChannel` per channel (newest first, in batches, cut by a failing
`EvtNext`), `EndEventLog` (de-duplication and status), `QueryReliability`,
`EndEvents` (second de-duplication, sort). `FillReport` writes fields and notes,
`ReadDumps` and `Analyse` run on the calling thread where nothing catches a
panic. `cut` and `log` are not in the code.

**SnapshotStore.** One process per scanner: `Start` fixes `generated_at`, `Create`
truncates the file, `Write` fills it, `WriteFails` and `Killed` leave it empty or
torn, `NotSaved` is `--no-save` or a directory that cannot be made. `BeginDiff`,
`List`, `Load` are the steps of `previous()`, `LoadNamed` is `--against`, and
`Compare` the scan and `store::diff`: `Key` is the lower-case name, `Predecessor` the
`find()`, `ReportDiff` the seven lists and `IsEmpty` what prints "Nothing changed".

**Analysis.** `CorrelateDumps` is the loop over dumps, `CorrelateEvent` one
iteration over the timeline, `FindOnset` the changepoint, `EvaluateRule` one rule
of `all_rules()`, `CombineFindings` scoring. `Times` is the sorted list of crash times,
told by how many crashes are earlier, since crashes may share a time. Rules and scores are the operators of
`DiagnosticRules` and `Scoring`, one per rule and one per idea.

**Verification.** `Crash`, `Reboot`, `AppCrash`, `DeleteDump`, `Uninstall` are the
machine; `Begin`, `Stat`, `Analyse` the listing, `file_time` and opening of
dumps in `parse_minidumps`; `Report` and `Leave` end a scan; `Notice`, `Agree`,
`Decline`, `Arm`, `NothingToArm` are `verify()`, and `Disable` is `--off`.
`CrashDumps!Record` is what one file yields: of a kernel dump the image with the
address its stop code documents, of an application's dump the image with the crash
address, which for an access violation is the address touched and not that of the
instruction (`UserDump`: its own code, `Library`, or no module). A boot may be
one of a 32-bit Windows: then its placement lies below `KernelBase`, where
`IsKernelAddress` finds nothing. `culprits` and `seen` are history,
and a dump's field `guilty` is what no dump says.

**Desktop.** `panel` is the `ScanState`, `shown` what the last frame drew, `repaint` a
requested frame. `StartScan` is the click, `ScanEnds` and `ScanPanics` the end of
the scan thread, `RequestRepaint` its last call, a step of its own because the
mutex is free in between; `Draw` is a frame, `Close` ends the process. The thread
examines the drivers side by side, as the pool does: `AskCatalog` (the open
handle), `AskFile` (the signature by path), `ReadHeader` (version and size),
`HashFile`, and `Finish` (category, corpus, name table); `ReplaceFile` comes between
any two. `Corpus` has `Fetch`, `Truncate`, `Fill` and `UpdateCut` of
`update-blocklist` and `FillCache`, the `OnceLock`. `Listed` is what the drivers tab
and `inspect-drivers` show by default. `seen` (what a path held during the scan),
`unasked` (a catalog that vouches and was not asked), `stored` and `known` (what the
user was told was stored) are history.

**ServiceInspector.** `ProbeSize` is the first call of a page, which tells the size
needed, `FetchPage` the second, `LastPage` the condition that leaves the loop. Either
may fail, and the manager may hand out fewer services than fit. The resume handle
is the number of the last service handed out. `ServiceMoves`, `ServiceCreated` and
`ServiceDeleted` come between any two calls.

**DeviceInspector.** `OpenTree` takes the list, `AskDevice` asks for a status,
`DeviceName` for a name; `DeviceMoves` changes a code or removes a device.

**ChangeTracker.** `CollectHotfixes` is one query, `OpenKey` opens an uninstall key or
the INF directory, `NextName` is one step of its iterator, `OpenEntry` reads the entry
handed out, `SortChanges` sorts and calls `dedup_by`. The iterator of a key counts
the entries when it is made and then asks the live registry for the entry of each
number (`counted`, `place`; `windows_registry::Key::keys` is external, from how
`RegEnumKeyEx` works), so that what comes or goes before an entry moves it past the
walk or under it twice; that of a directory goes on behind the file it handed out
last. `existed`, `remained`, `refused` and `shifted` are history. `ParseDate` takes the first number of a date with slashes for the month,
whatever the locale (`dayFirst`) meant.

**Bundle.** `CreateArchive`, `AddText`, `CheckDump` (metadata and limit), `AddDump` (reading
and writing), `FinishArchive`. Every write may fail, with the entry left out or cut
off (`CutOff`); then the writer is dropped, which tries to finish the archive with the
entries it has (`Dropped`; the `zip` crate is external), so what is left may
open. `start_file` takes a name once, and two dumps of one file name make it
fail. A dump that is gone, too large or kept from the reader is passed over
(`PassOver`). `kept` is history.
`Rules` are the redactor's, the usable names in a stable order, longest first
(`LongestFirst`), and `Redact` is its `apply()`, one `ReplaceName` per rule.

**Ordering.** A sort is told by its result: `Arranged` puts the element with k - 1
elements before it at place k, for an order given as a set of pairs of places. A stable
sort is an order in which equal elements keep their places (`ByTitle`, `ByName`,
`ByDate`), and what `dedup_by` leaves is `Filtered`, the places kept in ascending order.

**Parts.** The four have no variable in common, so a behaviour of all side by side is
one of each, and `part` picks the one a behaviour is about.

### Abstractions

- *Monitor*: messages are detections, not words; a record is its number; the
  window and the interval are in small units.
- *DriverInventory*: normalised paths are model values; what is read from a file is
  left to `Desktop`.
- *ScanEngine*: a record is its number, greater for newer; `Key` and `Mentions` give
  what de-duplication and substring search see. XPath and XML are left out.
- *SnapshotStore*: a report is its process and what `Machines` lets its scan find; the
  clock is in seconds; a driver is a name and a version.
- *Analysis*: a minute has two ticks and a day forty, and the thresholds per day
  are constants, small for TLC. Scores are exact fractions cut off at 100000ths (the
  rounding of `f32` is left out), and `Recency` is in tenths, cut off. Windows are a set, the ranking leaves ties by title open, and the
  order in which a `HashMap` gives the findings of one rule is open. A stop code
  is one of the codes a rule asks for, or another.
- *Verification*: every dump is in the scan window; a dump's table is a set of
  images, accepted or not as `read_modules` does; addresses are unbounded
  (`checked_add` never fails). The loader's placement is a constant per boot.
  Applications crash and drivers are removed only while no process runs, and
  dumps are deleted until they are read: later makes no difference to the
  process. An application has one library. One process runs at a time. The ranking of causes is any. `Flagged`
  is vulnerable or contending for sensors.
- *Desktop*: a build stands for its SHA-256 and for what Windows says of it (`File`,
  external); the words of names and paths are the categories they suggest. One
  process scans, another updates the corpus. An update is told to have succeeded
  when `fs::write` returns.
- *ServiceInspector*: sizes are counted in services; a page is a prefix of what is
  behind the resume handle.
- *ChangeTracker*: dates are days of one year, months of 31 days.
- *Bundle*: a text is a sequence of words, each in one of three writings; a name holds
  none of the characters that HTML escapes; what the six texts say is one text, and
  in JSON the backslash of a path is doubled. A text keeps its places while it is
  redacted: the second word of a profile path becomes `Nothing`. What a dump holds is
  left out.

## 4. Runs

| Run | Instance | What it shows |
|---|---|---|
| `monitor_safety` | 2 records, 1 notification, 1 device change, failing counts, renders and drains, closing console, shutdown at any time | nothing lost, no lost wakeup but by a failed drain, held briefly, device reports form a chain, `AlertDelivery` is implemented |
| `monitor_liveness` | 1 record, 2 notifications, log and webhook that may fail, drains that may fail | everything detected is announced in the end, unless the console is closed first; every record and dump, unless the monitor is over or a failed drain left the record; it stops when asked; one failing output costs the others nothing |
| `drivers` | 3 images, 2 with one name; 2 services, 3 modules, 3 threads, any of which may panic | each image once with its address, honest status, `DriverListing`, termination |
| `scan` | 2 channels with caps 2 and 1, a history of 1, 5 records with shared keys; 5 of the threads or steps may panic | timeline is the merge; loss of marks only by de-duplication; one note per provider; `SequentialScan`; termination |
| `store` | 3 scans, 3 seconds, 3 states of the machine, a diff against the last or a named report | saved scans stay; the diff takes the last; what it lists explains the change |
| `analysis` | some 3000 collections | one window per crash and one crash per window, sharpest rise, agreement of rules and windows, silence on a healthy machine but for the firmware rule's mistake, monotone scores |
| `verification` | 2 boots, the first of a 64-bit or a 32-bit Windows, 3 drivers, neighbouring images, dumps in every state, an application that touches itself, a library or nothing | true attribution, complete means complete, only announced suspects are armed |
| `desktop` | 2 copies of a listed driver, a build of Windows that may replace one, 2 scans, 2 updates that may be cut off, catalogs that may not answer, panics | signatures and facts are true of the files, a fetched build is flagged, one answer per hash in a report, every scan is shown |
| `parts` | up to 4 services, 3 devices, 6 software entries and 2 updates, each with 3 changes while they are read; a bundle of all texts of two words and a profile path with a name behind it, 5 crashes, of whose dumps one is too large and two have one name | what stood throughout is found once where the code can find it, nothing is invented, a written bundle is whole, every bundle's texts are redacted, each part ends |
| `monitor_silent_webhook` | a server that never answers | *violated*: the monitor stops when asked |
| `store_torn_file` | the newest file is incomplete | *violated*: the diff finds a saved scan |
| `desktop_unsigned` | a catalog context that was not acquired | *violated*: what is called unsigned is verified to be |

Every property of a passing run has a mutant in `PROJECT.json`: a variant of one
mapped definition, next to it in the module, with which the property fails. The
type invariants `TypeOK` are proved (section 5) and not in the runs.

### Bounds, and why they are enough

- *Monitor*: two records and a one-sample ring reach a record arriving before,
  during and after a drain and a ring that is full; a window of two reaches held,
  due and overdue. One notification per kind is enough for the channel, whose items
  are independent; the liveness run has two, so that one stands behind an error. Its one
  record may be left behind by a drain that failed; two records, of which the second
  wakes the worker for the first, are in the safety run.
- *DriverInventory*: three threads and up to five candidates have threads with no,
  one and several items; a path that two services share and that is loaded is in.
- *ScanEngine*: the two logs hold records over and under each cap, shared keys
  within a channel, across channels and across providers, and a cut batch (the
  batch is one record, so that a cut can come after any).
- *SnapshotStore*: three scans are one more than share a second, so that an older
  readable file can stand behind a newer torn one. Processes are symmetric. The
  three machines have a driver whose version changes, one whose name changes case,
  one name twice with two versions, and a device and a cause that come and go.
- *Analysis*: moments 11 and 22 ticks apart, that is five and a half minutes, give
  chains in which the next marker is near the last but not near the first;
  80 and 160 give days between; every subset of up to three markers with five
  sets of dumps. Background evidence is every subset of six events with five sets
  of crashes and four machines.
- *Verification*: images are neighbours and differ in size, and the second boot
  swaps them, so that every address of one driver is another's then; two boots
  are enough for a dump to be read in another boot than its own. One suspect at
  most makes the cut visible. A first boot below `KernelBase` shows the dumps of a
  32-bit Windows beside the scans of a later boot.
- *Desktop*: two copies of one build, one of them also known by name, are the least that
  an update can come between; one replacement makes the openings of a file disagree,
  and the other build, the one of Windows, has its signature in a catalog only and
  its version under a language that is no fallback. Two scans in one process reach
  the copy of the corpus kept from the first, and a process closed in between a
  fresh one; of two updates the second can be torn over the first.
- *Parts*: three changes can remove a service, create it anew and let another fail, or
  move what is behind the resume handle between probe and call; pages of any length
  come up with four services. The six entries have one program on two days, the same
  program in both views of the registry with another of that day in between, a part
  of a product and a driver package; the key of three lets an entry that goes shift
  those behind it. Two words hold a profile path in each writing, two names in each
  order and a half of a path, and the third a name behind a whole one.

### Fairness

Safety runs use `Spec`. `FairSpec` of `Monitor` gives weak fairness to the two
threads, since both are runnable threads of the process; the webhook has its own
conjunct because its step belongs to a server, and `SilentSpec` leaves that out.
Nothing forces records, notifications, a shutdown, or a failure. In
`DriverInventory` and `ScanEngine` every thread has weak fairness: none waits
for another but through a join or a lock held for a few instructions. It assumes
that each call into Windows returns; the code has no timeout to rely on instead
(section 6). `Desktop` gives it to the scan thread, to its request for a frame, which follows without a wait,
and to drawing a frame that was requested, which is the event loop's duty; nobody
has to click, to close the window, to replace a file or to update. `Parts` gives it
to the steps of the part, which is one thread, and none to the system's changes.
Strong fairness is used nowhere. Only the cfgs of `SnapshotStore` switch the
deadlock check off, because its processes do end, and `MCDesktopUnsigned`, which
is about one state.

## 5. Proofs

All theorems hold for any values of the constants that satisfy the named
assumptions of the module. What the assumptions say: bounds are naturals and at
least one where the code needs one; record numbers are in order of time
(`CollectionAssumption`); collections are sequences of timed records and their counts
are naturals (`ReportsAreCollections`); no changepoint is not
one (`NoneIsNoChangepoint`); images of one placement do not overlap, wherever they lie
(`PlacementAssumption`), and `KernelBase` is positive (`KernelAssumption`); a file that can be read has one description (`FileAssumption`);
lower case is idempotent (`StoreAssumption`); the services are finitely many and
have comparable names (`ServiceAssumption`), the device list has no device twice
(`DeviceAssumption`), an entry has a date (`ChangeAssumption`), a report consists of
words none of which is a mark, no dump is named like a text, and the profile path is
longer than the user's name it holds (`BundleAssumption`). Two dumps may have one
name, and two crashes one dump.

- `MonitorProofs`: `BufferInv` adds to `NothingLost` and `HeldBriefly` that the buffer is
  empty while a batch is delivered (so `Take` cannot overtake), that a batch is
  never empty, and that nothing waits longer than since the last flush, which is
  why restarting that clock in `take()` cannot strand a detection. From it follow
  `NoDetectionIsLost`, `AlertsAreHeldBriefly`, `NothingIsHeldAtExit`, and with the lemma on
  one step, the refinement `MonitorDelivers`. `NoWakeupIsLost` and
  `OutputsAreIndependent` are inductive by themselves; the former holds of a drain that
  `EvtNext` cut short only because it makes an exception of it (section 6). `DeviceReportsAreChained` needs that
  nothing is detected before the devices were counted first (`DeviceInv`), with one lemma
  for a report that continues the chain and one for any other detection.
- `DriverInventoryProofs`: `PoolInv` says where every candidate taken is: with one
  thread, in one local list, or in the shared list, at one place, unless a thread
  panicked. `EachCandidateOnce`, `SurvivorsDrain` and the refinement
  `InventoryListsAll` follow. `MergeInv` says of the merge that each module passed has a
  candidate with its address, that an address comes from such a module only, and that no
  two candidates share both path and address once there is one; a finished listing being a permutation of
  the candidates, `EveryAddressSurvives` follows, and with the invariant that the status is
  that of the list, `StatusTellsTheTruth`. `InventoryIsBounded`: every step lowers
  `Remaining`, which counts the steps of the collector, the modules to merge, twice the
  candidates to take with one for each in hand, and the threads yet to drain and to end.
  The step that starts the pool lowers it because no more was merged than the two
  sources may list (`Sizes`), and a thread works only after that step (`ThreadState`).
- `ScanEngineProofs`: joins happen in the order of the collectors, and an answer does
  not change once its thread ended; so the sequence joined is that of a
  sequential scan (`ScanIsSequential`). `GapInv` follows each answer into the notes
  (`EveryProviderIsNoted`). `EventsInv` follows the records: those gathered come from the
  logs within the caps (`FromLogs`), and the key of each record wanted from a channel
  passed is among them (`StandsForAll`), through both passes of de-duplication, of which
  `MergedKeeps` says what they drop. The list joined is what corroboration reads
  (`TimelineInv`). `TimelineIsTrue` and `OnlyDedupUnmarks` follow. `ScanIsBounded`: every
  step lowers `Remaining`, the steps of the caller and the answers, threads and logs that
  are left; that starting the threads adds none needs that they were all unborn
  (`UnbornFirst`).
- `SnapshotStoreProofs`: a created file belongs to a writer of its second, so only such
  a one can change it (`SavedScansStay`); what `List` chose is as new as what was saved
  by then, and a file never becomes absent (`DiffComparesWithTheLast`). `DiffIsTrue`
  rests on lemmas about the operators of `diff`: a predecessor has the name asked for
  (with `LeastIndex`, since `find()` returns the first), and where names are unique it
  is the driver of that name; a report, once it is the base, is not written again.
- `AnalysisProofs`: the windows of the dumps are there before the first marker is
  looked at, and a marker passed is near some window; a marker opens one only
  where none is near (`CrashesAreCountedOnce`, `NoCrashIsMissing`, and both together
  `WindowsAreTheCrashes`). `HealthyMachinesAreSilent` rests on one lemma with a case for each rule;
  the firmware rule is the one that may speak, and only where an application's exception
  code is one of its stop codes.
  `ResetsMatchTheVerdict`: `ResetInv` says that a window opened for a reset is that of a
  reset no dump explains, that the power loss cause is among the findings exactly when its
  rule has run and there is such a reset, and that ranking lists each cause found, which is
  an induction over the insertions of the sort (`RankedKeepsAll`). `OnsetIsWhereItRose`:
  the k-th time is one with fewer than k crashes earlier (`TimesAreOrdered`); the pass of
  `BestSplit` keeps the earliest of the steepest rises so far (`Sweep`, for any list of
  fractions and any mask of splits); the rise at a place of the list is that of its time, told
  from the windows (`RisesAgree`), and of the places of one time the first counts
  (`FirstSplitRisesMost`). `MoreEvidenceNeverSpeaksLess`: a product does not depend on which
  factor is taken first (`ProductIs`), splits over a part of its factors (`ProductSplits`)
  and falls with them (`ProductGrows`); each doubt is within its thousand
  (`DoubtIsBounded`), since every rule gives a weight and the time of something that
  happened (`FindingsAreScorable`); so what more findings leave, cut off, is no more
  (`LeftFalls`).
- `VerificationProofs`: `IInv` says that every dump on disk or in a record is one a crash
  can leave, and that such a kernel dump, read in any boot, names its guilty module or
  none, one of a 32-bit boot always none, and an application's the module with its crash
  address (`NoOneIsFramed`); that each file seen and still there is still to read, read
  or counted unreadable (`CompleteMeansComplete`); that plan and settings hold
  only third-party drivers that are flagged or once crashed the machine
  (`OnlySuspects`); and that a plan that waits for an answer is the one announced
  (`ToldBeforeArmed`).
- `DesktopProofs`: `IInv` says that a corpus that is whole is the one last announced and
  that an untorn copy is what had been told (`CorpusInv`); that a path's content is in
  `seen` while a scan runs, which is why what one opening reads is true of the scan;
  that a finished scan has examined every driver; and for each driver what its stage
  entitles to (`Examined`): a driver sent on to its embedded signature was not vouched
  for or not asked about, and a match is that of the copy the process keeps, which no
  later step changes. Whatever the copy holds, the user was told of once. `SignaturesAreHonest`,
  `FactsAreTrue`, `OneAnswerPerHash` and `KnownBuildsAreFlagged` follow, the first two with lemmas on the file operators
  (`SaidIsThere`, `CategoriseIsFirst`) that rest on `LeastIndex`.
- `PartsProofs`: one invariant for each part, which a step of another part leaves alone.
  `SequencedIs`, `SortedIs` and `FilteredIs` say of the operators of `Ordering` that a sort
  returns each element once and in order, and a filter what was kept, in its order.
  `BrokenDevicesFound`: the list under construction has a row for every device passed that
  stayed and never worked, and no row twice (`Rows`), whether its name was asked for yet
  or not (`DeviceInv`). `FailedServicesFound`: a service found is behind no page to come
  unless it was created anew, since numbers only grow (`Found`), and one that stayed failed
  is found or still behind the resume handle (`ServiceInv`); a page is a prefix of what is
  behind the handle (`PageIs`). `ChangesListed`: an entry before which nothing in its key was
  shifted is due, and a due one is recorded, handed out, or still ahead of the walk, since
  its number and the count have not moved (`Due`, `InReach`, `CountIs`, `ReachIs`); so what
  was due is recorded key by key
  (`Recorded`), and of each run of equal neighbours the sorted list keeps the first
  (`RunStart`, `DedupedIs`). `WrittenIsWhole`: until a failure the entries of the archive
  and the names returned agree, each text is what redaction made of its rendering,
  and behind the six texts every dump passed that stayed readable is attached; a
  failure adds at most one entry, which is cut from the one it would have been
  (`StartGrows`, `CutIs`), and a text cut anywhere holds no name that the whole does not. Of redaction, `RulesAre` says that each usable
  name has one rule and the profile path comes before the user, and `IsStage` says
  place by place what a text is after the rules of some names: a place within a
  profile path is the mark or nothing, one with another name its mark, any other what
  it was. A rule keeps that (`NameStage`, `ProfileStage`; the latter needs that the user
  was not replaced before), and with all of them done `RedactionHolds`.

Induction over data is done in first-order form, because no prover instantiates the
library's induction theorems: from a counterexample follows a least one (`MinIsLeast`,
`FirstIndex`, `LeastIndex`, from the well-foundedness of the naturals), and a predicate is
passed as the set of numbers or of finite sets it holds of (`EverySubset`). In this way a
fold is shown to be a function on the prefixes of its list (`FoldExists`).

Only model-checked: all liveness (`DeliversAlerts`, `EventsAreAnnounced`,
`StopsWhenAsked`, `InventoryEnds`, `ScanEnds`, `EveryScanIsShown`, `PartsEnd`), which is out
of this prover's reach. Of `ScanEnds` and `InventoryEnds` the half that needs no fairness
is proved for any size: `ScanIsBounded` and `InventoryIsBounded` say that a scan and an
inventory make finitely many steps, so neither can go round for ever. That neither
stops before its end, because some thread can always move and is scheduled, is the half
left to TLC, which finds no deadlock and no fair behaviour without an end.

## 6. Known deviations

Three are refuted by a run each (section 4) and listed under "findings":

- `main.rs` 446: a webhook server that never answers keeps the monitor from stopping.
- `store.rs` 81: a torn newest snapshot hides all older ones.
- `signature.rs` 58: when the catalog context cannot be acquired, a driver of Windows
  is reported as verified unsigned, which `rules.rs` takes for evidence.

The following were met while modelling. The models do what the code does, no run is
about them alone, and a property that such a deviation would break names it as its
exception.

Monitor and scan:

- `watcher.rs` 115: the window counts from the previous message, so the first alert
  after a quiet time goes out alone, where line 33 promises that "a burst becomes
  one message".
- `watcher.rs` 273 and 286-290: the poll resets the event, and an `EvtNext` that fails
  ends the drain; the records left behind wait for the next one to set it, for ever if
  there is none (`DrainMayFail`, `drainCut`). `NoLostWakeup` and `EventsAreAnnounced` make
  an exception of just these.
- `main.rs` 441 and 451: `eprintln!` panics when stderr is closed, which ends the worker
  as a closed console does. The models have the panic of the console only.
- `watcher.rs` 318: a record whose XML is longer than the buffer of 32 KB is dropped
  (`RenderMayFail`).
- `engine.rs` 157: no collector has a timeout; a query that never answers keeps
  `run_scan` for ever.
- `engine.rs` 164: a panic of the events thread leaves no note about either of its
  providers; of the other collectors it does.
- `engine.rs` 214: dumps and analysis run on the calling thread, where a panic costs
  the whole report; only the desktop interface catches it.
- `engine.rs` 313: a service is recognised by a substring, so a record about "Sensor
  Service" marks SENS.
- `models.rs` 430: of two services that fail in one second only the first is marked,
  since `dedup_key` has no service in it.
- `eventlog_reader.rs` 180: a channel cut by a failing `EvtNext` is reported complete
  (`docs/WHITE_PAPER.md` 49 speaks against silent degradation).

Collectors:

- `service_inspector.rs` 95: an enumeration that a failed call cuts off is reported
  complete, with the services behind it missing (`cutOff`; compare `models.rs` 59-61).
- `change_tracker.rs` 60: `dedup_by` sees neighbours only, so of A, B, A of one date
  both A stay; a program registered in both views of the registry can be listed twice.
- `change_tracker.rs` 221-249: where the locale writes the day first, 8/3 becomes
  August 3rd, and days after the 12th are dropped.
- `change_tracker.rs` 109-111: `keys()` asks for one entry after the other by number, so an
  installation or removal during the walk can pass over an entry that was there all the
  time (`Steady` is the exception of `ChangesAreListed`).
- `change_tracker.rs`: an uninstall key or INF directory that cannot be opened is not
  disclosed; the status tells of the updates alone.
- `minidump_reader.rs`, `user_dump_paths`: a directory of application dumps that cannot
  be read is not disclosed. `DumpsAreAccountedFor` is about directories that can.

Corpus and drivers:

- `loldrivers.rs` 308 and 399: a process that takes its copy while the file is torn
  matches by name only for the rest of its life, without a word, and one that runs
  on does not see a later update, where `docs/USER_GUIDE.md` 141 promises matches
  "once you have fetched it".
- `loldrivers.rs` 427-429: a feed that parses but is empty replaces the whole corpus.
- `main.rs` 159-160: `inspect-drivers --vulnerable-only` leaves out vulnerable drivers
  signed by Windows unless `--all` is given; `cli.rs` 34 speaks of all that match.

History, analysis and verdict:

- `store.rs` 35: two scans of one second share a file. The theorem `SavedScansStay`
  says that nothing else can take a saved scan away.
- `store.rs` 135: of two drivers of one name with different versions the second is
  compared with the first, so that an unchanged machine shows a change; the test
  `an_unchanged_system_diffs_to_nothing` has no such pair. A device whose problem code
  changes is neither new nor resolved.
- `correlation_engine.rs` 39 and 72: a marker between 5:00 and 5:59 minutes from a crash
  is covered by its window but shown in no window's context, for one side
  truncates to minutes and the other compares durations.
- `rules.rs` 470-483: a bug check record without a dump next to an event 41 is reported
  as a power loss, and alone yields no cause.
- `rules.rs` 1013: the firmware rule does not ask whether a crash was a stop or an
  application's, so an exception code that equals one of its four stop codes makes it
  speak of hardware errors where there were none. `HealthyMachineIsSilent` makes an
  exception of just this (`MistakenForAStop`).
- `minidump_reader.rs` 238: the module named for an application's crash is the one with
  the crash address, for an access violation the address touched; `models.rs` 457
  speaks of the faulting instruction pointer. An address in no module leaves the crash
  without a name and without a word.
- `minidump_reader.rs` 159-163 and 223: the parameters of a 32-bit kernel dump are
  zero-extended and never look like kernel addresses, so such a crash has no culprit, no
  warning and status complete, where `docs/WHITE_PAPER.md` 152 promises one. `DumpsAreAccountedFor`
  asks for a name only where the dump is `Resolvable`.
- `rules.rs` 919-921: a changepoint has the full weight when no crash of the window
  precedes it. At an even crash rate that is the oldest crash of the window, with
  no stable day before it, the mistake `changepoint.rs` 3-6 speaks of.
- `bugcheck.rs` 118: a stop of Driver Verifier (0xC4) is attributed to nobody, so the
  scan after a Verifier run does not name what it caught.
- `main.rs` 656-660: `verify --off` prints that Verifier is off from the next reboot
  whether or not verifier.exe succeeded (`Disable` allows both).
- `verifier.rs` 87: any driver that contends for sensors is armed, though
  `docs/USER_GUIDE.md` speaks of "only the drivers the scan actually implicated".

Bundle:

- `bundle.rs`: an archive that was at the destination is lost even if the new one
  fails, and a failed one is left there. The `zip` writer finishes it when it is
  dropped, so it may open like a whole one, with fewer entries and the last one cut.
- `bundle.rs` 102-103: the entry of a dump is its file name, so two dumps of one name, in
  two directories, make `start_file` and with it the whole bundle fail.
- `bundle.rs` 90-98: a dump that is there and cannot be read is left out without a word.
- `bundle.rs` 239-255: a name is replaced as it is written and in lower case, and in
  no other writing; a comment (line 249) speaks of either slash direction, of which
  the code knows one. In `report.json`, where backslashes are doubled, a profile path
  is redacted only by its user name, and a name that HTML escapes is not found in
  `report.html`.

## 7. Not modelled

The components with status `not_modelled` in `PROJECT.json`: the providers of system,
firmware and security posture and the privilege check make one query each and keep
nothing (their answers, failures and panics are inputs of `ScanEngine` and
`Verification`); of the reports and the command line the content is layout and
parsing, while the commands themselves are modelled with the component they drive;
fixtures and tests.

Within modelled components: message texts, XML, the events a crash window lists
around it, evidence and command lists of a cause, the offsets inside a dump's tables
and the machine code of its header, `verify --status`, the feed's names and CVEs,
`--no-hashes` (a scan that leaves every hash out matches by name only), and of the
desktop interface the tabs, the filter and saving a report.
