--------------------------- MODULE SnapshotStore ---------------------------
(***************************************************************************)
(* The history of scans: `winsleuth scan` processes that save their report *)
(* under the second in which they started, and one `winsleuth diff` that   *)
(* looks for the last of them, scans, and compares.  Processes share       *)
(* nothing but the directory; a file is created empty and then filled, and *)
(* a process may be killed, or the disk be full, at any point.             *)
(***************************************************************************)
EXTENDS Integers, SequencesExt

CONSTANTS
  Scanners,     \* the processes that run a scan; each makes one report
  MaxClock,     \* bound: the last second
  Names,        \* file names of drivers
  Lower,        \* name |-> the same in lower case
  Versions, Devices, Causes,
  Machines      \* what a scan may find: loaded drivers in the order of their
                \* names, devices with problems, suspected causes

ASSUME StoreAssumption ==
  /\ MaxClock \in Nat
  /\ Lower \in [Names -> Names]
  /\ \A n \in Names : Lower[Lower[n]] = Lower[n]
  /\ Machines \subseteq [drivers : Seq([name : Names, version : Versions]),
                        devices : SUBSET Devices, causes : SUBSET Causes]
  /\ Scanners \cap {"absent", "empty", "torn", "none"} = {}

VARIABLES
  clock,        \* seconds
  scan,         \* scanner |-> "idle", "scanning", "writing", "saved", "failed", "killed"
  generated,    \* scanner |-> its report's generated_at, in seconds
  report,       \* scanner |-> what its report says
  file,         \* second |-> content of the file named after it
  differ,       \* step of the diff: "idle", "list", "load", "loaded",
                \* "compared"
  before,       \* the diff looks for snapshots taken before this
  found,        \* the snapshot it has chosen, or -1
  base,         \* the report it compares with, or "none"
  current,      \* what its own scan found
  comparison,   \* the ReportDiff
  savedByThen   \* scanners that had saved when it listed; not in the code

comparedVars == <<current, comparison>>
differVars == <<differ, before, found, base, savedByThen, comparedVars>>
vars == <<clock, scan, generated, report, file, differVars>>

Seconds == 0 .. MaxClock
Created == {"writing", "saved", "failed", "killed"}

-----------------------------------------------------------------------------
(* diff(): drivers are matched by file name in any case, devices by their  *)
(* id and causes by theirs; a driver's predecessor is the first one of its *)
(* name.  What the two reports count and print is left out.                *)

(* Variant: the case of a name matters.                                    *)
Key_Exact(d) == d.name

Key(d) == Lower[d.name]

Named(drivers, key) == \E i \in DOMAIN drivers : Key(drivers[i]) = key

Predecessor(drivers, key) ==
  drivers[SelectInSeq(drivers, LAMBDA d : Key(d) = key)]

Gone(drivers, others) ==
  {d.name : d \in {d \in ToSet(drivers) : ~Named(others, Key(d))}}

Changed(old, new) ==
  {[name |-> d.name, from |-> Predecessor(old, Key(d)).version, to |-> d.version] :
     d \in {d \in ToSet(new) :
             Named(old, Key(d)) /\ Predecessor(old, Key(d)).version # d.version}}

ReportDiff(old, new) ==
  [driversAdded    |-> Gone(new.drivers, old.drivers),
   driversRemoved  |-> Gone(old.drivers, new.drivers),
   driversChanged  |-> Changed(old.drivers, new.drivers),
   devicesNew      |-> new.devices \ old.devices,
   devicesResolved |-> old.devices \ new.devices,
   causesNew       |-> new.causes \ old.causes,
   causesResolved  |-> old.causes \ new.causes]

IsEmpty(diff) == \A part \in DOMAIN diff : diff[part] = {}

-----------------------------------------------------------------------------
(* Variant: the name has no seconds.                                       *)
FileOf_ToTheMinute(t) == t - (t % 2)

(* The file name has whole seconds.                                        *)
FileOf(t) == t

NoReport == [drivers |-> <<>>, devices |-> {}, causes |-> {}]

Init ==
  /\ clock = 0
  /\ scan = [s \in Scanners |-> "idle"]
  /\ generated = [s \in Scanners |-> 0]
  /\ report = [s \in Scanners |-> NoReport]
  /\ file = [t \in Seconds |-> "absent"]
  /\ differ = "idle" /\ before = 0 /\ found = -1 /\ base = "none" /\ savedByThen = {}
  /\ current = NoReport /\ comparison = ReportDiff(NoReport, NoReport)

Tick ==
  /\ clock < MaxClock
  /\ clock' = clock + 1
  /\ UNCHANGED <<scan, generated, report, file, differVars>>

-----------------------------------------------------------------------------
(* winsleuth scan                                                          *)

Become(s, state) == scan' = [scan EXCEPT ![s] = state]

(* The report gets its time when the scan starts, not when it is saved.    *)
Start(s) ==
  /\ scan[s] = "idle"
  /\ Become(s, "scanning")
  /\ generated' = [generated EXCEPT ![s] = clock]
  /\ \E machine \in Machines : report' = [report EXCEPT ![s] = machine]
  /\ UNCHANGED <<clock, file, differVars>>

(* fs::write creates the file, or empties the one there is, ...            *)
Create(s) ==
  /\ scan[s] = "scanning"
  /\ Become(s, "writing")
  /\ file' = [file EXCEPT ![FileOf(generated[s])] = "empty"]
  /\ UNCHANGED <<clock, generated, report, differVars>>

(* ... and writes from its start; what another process wrote meanwhile may *)
(* be longer, and its tail stays.                                          *)
Write(s) ==
  /\ scan[s] = "writing"
  /\ Become(s, "saved")
  /\ LET name == FileOf(generated[s])
     IN  \/ file' = [file EXCEPT ![name] = s]
         \/ /\ file[name] # "empty"
            /\ file' = [file EXCEPT ![name] = "torn"]
  /\ UNCHANGED <<clock, generated, report, differVars>>

(* Nothing is saved: the report could not be written where --output says,  *)
(* which ends the process before it saves, or the directory or the file    *)
(* cannot be created, which is only reported.                              *)
NotSaved(s) ==
  /\ scan[s] = "scanning"
  /\ Become(s, "failed")
  /\ UNCHANGED <<clock, generated, report, file, differVars>>

(* The disk is full: save returns an error and leaves what it wrote.       *)
WriteFails(s) ==
  /\ scan[s] = "writing"
  /\ Become(s, "failed")
  /\ file' = [file EXCEPT ![FileOf(generated[s])] = "torn"]
  /\ UNCHANGED <<clock, generated, report, differVars>>

Killed(s) ==
  /\ scan[s] \in {"scanning", "writing"}
  /\ Become(s, "killed")
  /\ \/ UNCHANGED file
     \/ /\ scan[s] = "writing"
        /\ file' = [file EXCEPT ![FileOf(generated[s])] = "torn"]
  /\ UNCHANGED <<clock, generated, report, differVars>>

-----------------------------------------------------------------------------
(* winsleuth diff                                                          *)

(* Utc::now() is within the current second, or exactly at its start.       *)
BeginDiff ==
  /\ differ = "idle"
  /\ differ' = "list"
  /\ before' \in {clock, clock + 1}
  /\ UNCHANGED <<clock, scan, generated, report, file, found, base, savedByThen, comparedVars>>

Older == {t \in Seconds : file[t] # "absent" /\ t < before}

(* Variant: sort_by_key without Reverse.                                   *)
List_OldestFirst ==
  /\ differ = "list"
  /\ differ' = "load"
  /\ savedByThen' = {s \in Scanners : scan[s] = "saved"}
  /\ IF Older = {} THEN found' = -1
     ELSE found' \in {t \in Older : \A u \in Older : u >= t}
  /\ UNCHANGED <<clock, scan, generated, report, file, before, base, comparedVars>>

(* The newest of the snapshots older than `before`.                        *)
List ==
  /\ differ = "list"
  /\ differ' = "load"
  /\ savedByThen' = {s \in Scanners : scan[s] = "saved"}
  /\ IF Older = {} THEN found' = -1
     ELSE found' \in {t \in Older : \A u \in Older : u <= t}
  /\ UNCHANGED <<clock, scan, generated, report, file, before, base, comparedVars>>

(* What is not a whole report does not parse; then there is no previous    *)
(* scan, whatever else is in the directory.                                *)
Load ==
  /\ differ = "load"
  /\ differ' = "loaded"
  /\ base' = IF found \in Seconds /\ file[found] \in Scanners THEN file[found] ELSE "none"
  /\ UNCHANGED <<clock, scan, generated, report, file, before, found, savedByThen, comparedVars>>

(* diff --against: any file of the history; one that does not parse ends   *)
(* the process before it has done anything.                                *)
LoadNamed ==
  /\ differ = "idle"
  /\ differ' = "loaded"
  /\ \E t \in Seconds : file[t] \in Scanners /\ base' = file[t]
  /\ UNCHANGED <<clock, scan, generated, report, file, before, found, savedByThen, comparedVars>>

(* With a report to compare with, it scans.                                *)
Compare ==
  /\ differ = "loaded" /\ base # "none"
  /\ differ' = "compared"
  /\ current' \in Machines
  /\ comparison' = ReportDiff(report[base], current')
  /\ UNCHANGED <<clock, scan, generated, report, file, before, found, base, savedByThen>>

-----------------------------------------------------------------------------
Scan(s) ==
  \/ Start(s) \/ Create(s) \/ Write(s)
  \/ NotSaved(s) \/ WriteFails(s) \/ Killed(s)

Diff == BeginDiff \/ List \/ Load \/ LoadNamed \/ Compare

Next == Tick \/ (\E s \in Scanners : Scan(s)) \/ Diff

Spec == Init /\ [][Next]_vars

-----------------------------------------------------------------------------
(* Properties.                                                             *)

(* The variables keep their types.                                         *)
TypeOK ==
  /\ clock \in Seconds
  /\ scan \in [Scanners -> {"idle", "scanning"} \cup Created]
  /\ generated \in [Scanners -> Seconds]
  /\ report \in [Scanners -> Machines \cup {NoReport}]
  /\ file \in [Seconds -> {"absent", "empty", "torn"} \cup Scanners]
  /\ differ \in {"idle", "list", "load", "loaded", "compared"}
  /\ before \in 0 .. MaxClock + 1
  /\ found \in Seconds \cup {-1}
  /\ base \in Scanners \cup {"none"}
  /\ savedByThen \subseteq Scanners
  /\ current \in Machines \cup {NoReport}

SameSecond(r, s) == r # s /\ generated[r] = generated[s] /\ scan[r] \in Created

(* A saved report is in the history for good, whatever other scans are     *)
(* killed or run out of disk - unless another scan started in its second.  *)
SavedUnlessSameSecond ==
  \A s \in Scanners :
    scan[s] = "saved" /\ file[generated[s]] # s => \E r \in Scanners : SameSecond(r, s)

(* The report a diff finds is older than the diff, and of those saved by   *)
(* then none that is older than the diff is newer than it.                 *)
ComparedWithTheLast ==
  base # "none" /\ found # -1 =>
    /\ generated[base] < before
    /\ \A s \in savedByThen : generated[s] < before => generated[s] <= generated[base]

(* If a scan was saved before the diff, in its own second, the diff finds  *)
(* one to compare with.  ("this machine now against the last saved scan")  *)
DiffFindsAScan ==
  differ = "loaded" /\ base = "none" =>
    \A s \in savedByThen : generated[s] < before => \E r \in Scanners : SameSecond(r, s)

(* The comparison explains the change: the report that was saved, with the *)
(* difference applied, is the one the scan gave, in causes, devices,       *)
(* drivers and - where no two drivers share a name - versions.  So when    *)
(* "Nothing changed" is printed, nothing of these did.                     *)
Keys(drivers) == {Key(drivers[i]) : i \in DOMAIN drivers}

LowerAll(names) == {Lower[n] : n \in names}

OneEach(drivers) == \A i, j \in DOMAIN drivers : Key(drivers[i]) = Key(drivers[j]) => i = j

DriversExplained(old, new, diff) ==
  /\ Keys(new) = (Keys(old) \ LowerAll(diff.driversRemoved)) \cup LowerAll(diff.driversAdded)
  /\ OneEach(old) =>
       \A i \in DOMAIN old, j \in DOMAIN new :
         Key(old[i]) = Key(new[j]) =>
           (old[i].version # new[j].version <=>
              [name |-> new[j].name, from |-> old[i].version, to |-> new[j].version]
                \in diff.driversChanged)

DiffExplainsTheChange ==
  differ = "compared" =>
    LET old == report[base]
    IN  /\ current.causes =
             (old.causes \ comparison.causesResolved) \cup comparison.causesNew
        /\ current.devices =
             (old.devices \ comparison.devicesResolved) \cup comparison.devicesNew
        /\ DriversExplained(old.drivers, current.drivers, comparison)
        /\ IsEmpty(comparison) =>
             /\ current.causes = old.causes /\ current.devices = old.devices
             /\ Keys(current.drivers) = Keys(old.drivers)
=============================================================================
