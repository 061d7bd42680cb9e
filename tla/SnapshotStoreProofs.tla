------------------------ MODULE SnapshotStoreProofs ------------------------
(***************************************************************************)
(* Machine-checked proofs about the history of scans, for any number of    *)
(* processes and any length of time.                                       *)
(***************************************************************************)
EXTENDS SnapshotStore, WellFoundedInduction, TLAPS

USE DEF comparedVars, differVars, Created, Become, FileOf

-----------------------------------------------------------------------------
(* A set of indices that is not empty has a least, and Min is it.          *)
LEMMA LeastIndex ==
  ASSUME NEW n \in Nat, NEW I \in SUBSET (1 .. n), I # {}
  PROVE  Min(I) \in I /\ Min(I) \in 1 .. n /\ \A i \in I : Min(I) <= i
<1>1. I \in SUBSET Nat
  OBVIOUS
<1>2. PICK m \in I : \A i \in I : <<i, m>> \notin OpToRel(<, Nat)
  BY <1>1, WFMin, NatLessThanWellFounded, Zenon
<1>3. \A i \in I : m <= i
  <2> SUFFICES ASSUME NEW i \in I PROVE m <= i
    OBVIOUS
  <2>1. m \in Nat /\ i \in Nat
    BY <1>1, <1>2
  <2>2. ~(i < m)
    BY <1>2, <2>1, Zenon DEF OpToRel
  <2>3. QED
    BY <2>1, <2>2
<1>4. Min(I) \in I /\ \A i \in I : Min(I) <= i
  BY <1>2, <1>3 DEF Min
<1>5. QED
  BY <1>4

-----------------------------------------------------------------------------
(* Types.                                                                  *)

LEMMA TypeInit == Init => TypeOK
BY StoreAssumption DEF Init, TypeOK, Seconds

LEMMA TypeStep == TypeOK /\ [Next]_vars => TypeOK'
<1> SUFFICES ASSUME TypeOK, [Next]_vars PROVE TypeOK'
  OBVIOUS
<1> USE DEF TypeOK, Seconds
<1>1. CASE Tick
  BY <1>1, StoreAssumption DEF Tick
<1>2. ASSUME NEW s \in Scanners, Scan(s) PROVE TypeOK'
  <2>1. CASE Start(s)
    BY <2>1 DEF Start
  <2>2. CASE Create(s)
    BY <2>2 DEF Create
  <2>3. CASE Write(s)
    BY <2>3 DEF Write
  <2>4. CASE NotSaved(s)
    BY <2>4 DEF NotSaved
  <2>5. CASE WriteFails(s)
    BY <2>5 DEF WriteFails
  <2>6. CASE Killed(s)
    BY <2>6 DEF Killed
  <2>7. QED
    BY <1>2, <2>1, <2>2, <2>3, <2>4, <2>5, <2>6 DEF Scan
<1>3. CASE BeginDiff
  BY <1>3, StoreAssumption DEF BeginDiff
<1>4. CASE List
  BY <1>4 DEF List, Older
<1>5. CASE Load
  BY <1>5 DEF Load
<1>6. CASE LoadNamed \/ Compare
  BY <1>6 DEF LoadNamed, Compare
<1>7. CASE UNCHANGED vars
  BY <1>7 DEF vars
<1>8. QED
  BY <1>1, <1>2, <1>3, <1>4, <1>5, <1>6, <1>7 DEF Next, Diff

(* The variables keep their types.                                         *)
THEOREM TypeCorrect == Spec => []TypeOK
BY TypeInit, TypeStep, PTL DEF Spec

-----------------------------------------------------------------------------
(* Saved reports stay.  The invariant adds what is known of a report that  *)
(* is being written: its file is still empty, or a second writer is about. *)

WrittenAlone ==
  \A s \in Scanners :
    scan[s] = "writing" /\ file[generated[s]] # "empty" =>
      \E r \in Scanners : SameSecond(r, s)

HistoryInv == WrittenAlone /\ SavedUnlessSameSecond

(* Once created, a file's writer keeps its second.                         *)
LEMMA SameSecondStays ==
  ASSUME TypeOK, [Next]_vars, NEW r \in Scanners, NEW s \in Scanners,
         SameSecond(r, s), scan[s] \in Created
  PROVE  SameSecond(r, s)'
<1>1. CASE \E q \in Scanners : Scan(q)
  BY <1>1 DEF SameSecond, Scan, Start, Create, Write, NotSaved, WriteFails, Killed, TypeOK
<1>2. CASE UNCHANGED <<scan, generated>>
  BY <1>2 DEF SameSecond
<1>3. QED
  BY <1>1, <1>2 DEF Next, Tick, Diff, BeginDiff, List, Load, LoadNamed, Compare, vars

(* A file changes hands only between writers of one second.                *)
LEMMA TouchedBySameSecond ==
  ASSUME TypeOK, NEW s \in Scanners, scan[s] \in Created,
         NEW r \in Scanners, r # s, Scan(r), file'[generated[s]] # file[generated[s]]
  PROVE  SameSecond(r, s)'
<1>1. generated' = generated /\ generated[r] = generated[s] /\ scan'[r] \in Created
  BY DEF Scan, Start, Create, Write, NotSaved, WriteFails, Killed, TypeOK
<1>2. QED
  BY <1>1 DEF SameSecond

LEMMA HistoryStep == TypeOK /\ HistoryInv /\ [Next]_vars => HistoryInv'
<1> SUFFICES ASSUME TypeOK, HistoryInv, [Next]_vars PROVE HistoryInv'
  OBVIOUS
<1> USE DEF HistoryInv, WrittenAlone, SavedUnlessSameSecond
<1>1. ASSUME NEW s \in Scanners, scan[s] \in Created, scan'[s] = scan[s],
             generated'[s] = generated[s], file'[generated[s]] = file[generated[s]]
      PROVE  /\ scan'[s] = "writing" /\ file'[generated'[s]] # "empty" =>
                  \E r \in Scanners : SameSecond(r, s)'
             /\ scan'[s] = "saved" /\ file'[generated'[s]] # s =>
                  \E r \in Scanners : SameSecond(r, s)'
  BY <1>1, SameSecondStays
<1>2. ASSUME NEW s \in Scanners, scan'[s] \in {"writing", "saved"}
      PROVE  /\ scan'[s] = "writing" /\ file'[generated'[s]] # "empty" =>
                  \E r \in Scanners : SameSecond(r, s)'
             /\ scan'[s] = "saved" /\ file'[generated'[s]] # s =>
                  \E r \in Scanners : SameSecond(r, s)'
  <2>1. CASE Create(s)
    <3>1. scan'[s] = "writing" /\ generated' = generated /\ file'[generated[s]] = "empty"
      BY <2>1 DEF Create, TypeOK
    <3>2. QED
      BY <3>1
  <2>2. CASE Write(s)
    <3>1. /\ scan[s] = "writing" /\ scan'[s] = "saved" /\ generated' = generated
          /\ file'[generated[s]] = s \/ file[generated[s]] # "empty"
      BY <2>2 DEF Write, TypeOK
    <3>2. QED
      BY <3>1, SameSecondStays
  <2>3. CASE Start(s) \/ NotSaved(s) \/ WriteFails(s) \/ Killed(s)
    BY <1>2, <2>3 DEF Start, NotSaved, WriteFails, Killed, TypeOK
  <2>4. ASSUME NEW r \in Scanners, r # s, Scan(r)
        PROVE  /\ scan'[s] = scan[s] /\ generated'[s] = generated[s]
               /\ scan[s] \in Created
    BY <1>2, <2>4 DEF Scan, Start, Create, Write, NotSaved, WriteFails, Killed, TypeOK
  <2>5. CASE \E r \in Scanners : r # s /\ Scan(r)
    <3>1. PICK r \in Scanners : r # s /\ Scan(r)
      BY <2>5
    <3>2. CASE file'[generated[s]] = file[generated[s]]
      BY <1>1, <2>4, <3>1, <3>2
    <3>3. CASE file'[generated[s]] # file[generated[s]]
      BY <2>4, <3>1, <3>3, TouchedBySameSecond
    <3>4. QED
      BY <3>2, <3>3
  <2>6. CASE UNCHANGED <<scan, generated, file>>
    BY <1>1, <1>2, <2>6
  <2>7. QED
    BY <2>1, <2>2, <2>3, <2>5, <2>6
    DEF Next, Scan, Tick, Diff, BeginDiff, List, Load, LoadNamed, Compare, vars
<1>3. QED
  BY <1>2 DEF SameSecond

(* A saved report stays in the history unless another scan started in its  *)
(* second.                                                                 *)
THEOREM SavedScansStay == Spec => []SavedUnlessSameSecond
<1>1. Init => HistoryInv
  BY DEF Init, HistoryInv, WrittenAlone, SavedUnlessSameSecond
<1>2. HistoryInv => SavedUnlessSameSecond
  BY DEF HistoryInv
<1>3. QED
  BY <1>1, <1>2, HistoryStep, TypeCorrect, PTL DEF Spec

-----------------------------------------------------------------------------
(* What a diff compares with.  A file is only ever filled by the scan whose *)
(* second it is named after, and a scan that saved does nothing more.      *)

FilesAreTheirs ==
  \A t \in Seconds : file[t] \in Scanners =>
    generated[file[t]] = t /\ scan[file[t]] = "saved"

SavedHaveFiles ==
  \A s \in Scanners : scan[s] \in {"writing", "saved"} => file[generated[s]] # "absent"

(* What was chosen is the newest of those that had saved by then.          *)
ChosenIsLast ==
  differ \in {"load", "loaded", "compared"} =>
    /\ found \in Seconds => found < before
    /\ \A s \in savedByThen :
         /\ scan[s] = "saved"
         /\ generated[s] < before => found \in Seconds /\ generated[s] <= found

BaseIsChosen ==
  base # "none" =>
    /\ differ \in {"loaded", "compared"} /\ scan[base] = "saved"
    /\ found = -1 => savedByThen = {}
    /\ found # -1 => generated[base] = found

Idle == differ \in {"idle", "list"} => found = -1 /\ savedByThen = {}

DiffInv == FilesAreTheirs /\ SavedHaveFiles /\ ChosenIsLast /\ BaseIsChosen /\ Idle

LEMMA DiffInit == Init => DiffInv
BY StoreAssumption
   DEF Init, DiffInv, FilesAreTheirs, SavedHaveFiles, ChosenIsLast, BaseIsChosen, Idle, Seconds

(* What a step of a scan leaves alone.                                     *)
LEMMA ScanKeeps ==
  ASSUME TypeOK, NEW s \in Scanners, Scan(s)
  PROVE  /\ UNCHANGED <<clock, differVars>>
         /\ \A r \in Scanners : scan[r] = "saved" =>
              scan'[r] = "saved" /\ generated'[r] = generated[r]
         /\ \A t \in Seconds : file[t] # "absent" => file'[t] # "absent"
BY StoreAssumption DEF Scan, Start, Create, Write, NotSaved, WriteFails, Killed, TypeOK

LEMMA FilesStep == TypeOK /\ DiffInv /\ [Next]_vars => FilesAreTheirs' /\ SavedHaveFiles'
<1> SUFFICES ASSUME TypeOK, DiffInv, [Next]_vars PROVE FilesAreTheirs' /\ SavedHaveFiles'
  OBVIOUS
<1> USE DEF DiffInv, FilesAreTheirs, SavedHaveFiles
<1>1. ASSUME NEW s \in Scanners, Scan(s) PROVE FilesAreTheirs'
  <2> SUFFICES ASSUME NEW t \in Seconds, file'[t] \in Scanners
               PROVE  generated'[file'[t]] = t /\ scan'[file'[t]] = "saved"
    OBVIOUS
  <2>1. CASE file'[t] = file[t]
    BY <1>1, <2>1, ScanKeeps
  <2>2. CASE file'[t] # file[t]
    <3>1. Write(s) /\ generated[s] = t /\ file'[t] = s
      BY <1>1, <2>2, StoreAssumption
      DEF Scan, Start, Create, Write, NotSaved, WriteFails, Killed, TypeOK
    <3>2. QED
      BY <3>1 DEF Write, TypeOK
  <2>3. QED
    BY <2>1, <2>2
<1>2. ASSUME NEW s \in Scanners, Scan(s) PROVE SavedHaveFiles'
  <2> SUFFICES ASSUME NEW r \in Scanners, scan'[r] \in {"writing", "saved"}
               PROVE  file'[generated'[r]] # "absent"
    OBVIOUS
  <2>1. CASE scan[r] \in {"writing", "saved"}
    <3>1. generated'[r] = generated[r] /\ generated[r] \in Seconds
      BY <1>2, <2>1 DEF Scan, Start, Create, Write, NotSaved, WriteFails, Killed, TypeOK
    <3>2. QED
      BY <1>2, <2>1, <3>1, ScanKeeps
  <2>2. CASE scan[r] \notin {"writing", "saved"}
    <3>1. r = s /\ Create(s)
      BY <1>2, <2>2 DEF Scan, Start, Create, Write, NotSaved, WriteFails, Killed, TypeOK
    <3>2. QED
      BY <3>1 DEF Create, TypeOK
  <2>3. QED
    BY <2>1, <2>2
<1>3. CASE UNCHANGED <<scan, generated, file>>
  BY <1>3
<1>4. QED
  BY <1>1, <1>2, <1>3 DEF Next, Tick, Diff, BeginDiff, List, Load, LoadNamed, Compare, vars

LEMMA ChosenStep == TypeOK /\ DiffInv /\ [Next]_vars => ChosenIsLast' /\ BaseIsChosen' /\ Idle'
<1> SUFFICES ASSUME TypeOK, DiffInv, [Next]_vars PROVE ChosenIsLast' /\ BaseIsChosen' /\ Idle'
  OBVIOUS
<1> USE DEF DiffInv, ChosenIsLast, BaseIsChosen, Idle
<1>1. CASE Tick \/ UNCHANGED vars
  BY <1>1 DEF Tick, vars
<1>2. ASSUME NEW s \in Scanners, Scan(s) PROVE ChosenIsLast' /\ BaseIsChosen' /\ Idle'
  <2>1. /\ UNCHANGED <<differ, before, found, base, savedByThen>>
        /\ \A r \in Scanners : scan[r] = "saved" =>
             scan'[r] = "saved" /\ generated'[r] = generated[r]
    BY <1>2, ScanKeeps
  <2>2. base # "none" => base \in Scanners
    BY DEF TypeOK
  <2>3. savedByThen \subseteq Scanners
    BY DEF TypeOK
  <2>4. QED
    BY <2>1, <2>2, <2>3
<1>3. CASE BeginDiff
  BY <1>3 DEF BeginDiff
<1>4. CASE List
  <2>1. /\ differ = "list" /\ differ' = "load"
        /\ UNCHANGED <<scan, generated, file, before, base>>
        /\ savedByThen' = {s \in Scanners : scan[s] = "saved"}
    BY <1>4 DEF List
  <2>2. ASSUME NEW s \in Scanners, scan[s] = "saved", generated[s] < before
        PROVE  generated[s] \in Older
    BY <2>2 DEF Older, SavedHaveFiles, TypeOK
  <2>3. found' \in Seconds => found' < before
    BY <1>4 DEF List, Older, Seconds
  <2>4. ASSUME NEW s \in Scanners, scan[s] = "saved", generated[s] < before
        PROVE  found' \in Seconds /\ generated[s] <= found'
    BY <1>4, <2>2, <2>4 DEF List, Older
  <2>5. base = "none"
    BY <2>1
  <2>6. QED
    BY <2>1, <2>3, <2>4, <2>5
<1>5. CASE Load
  <2>1. /\ differ = "load" /\ UNCHANGED <<scan, generated, before, found, savedByThen>>
        /\ differ' = "loaded"
        /\ base' # "none" => found \in Seconds /\ file[found] \in Scanners /\ base' = file[found]
    BY <1>5 DEF Load
  <2>2. base' # "none" => generated[base'] = found /\ scan[base'] = "saved"
    BY <2>1 DEF FilesAreTheirs
  <2>3. found \in Seconds => found # -1
    BY StoreAssumption DEF Seconds
  <2>4. base = "none"
    BY <2>1
  <2>5. QED
    BY <2>1, <2>2, <2>3
<1>6. CASE LoadNamed
  <2>1. /\ differ = "idle" /\ differ' = "loaded"
        /\ UNCHANGED <<scan, generated, before, found, savedByThen>>
        /\ \E t \in Seconds : file[t] \in Scanners /\ base' = file[t]
    BY <1>6 DEF LoadNamed
  <2>2. scan[base'] = "saved"
    BY <2>1 DEF FilesAreTheirs
  <2>3. found = -1 /\ found \notin Seconds /\ savedByThen = {}
    BY <2>1, StoreAssumption DEF Idle, Seconds
  <2>4. QED
    BY <2>1, <2>2, <2>3
<1>7. CASE Compare
  BY <1>7 DEF Compare
<1>8. QED
  BY <1>1, <1>2, <1>3, <1>4, <1>5, <1>6, <1>7 DEF Next, Diff

(* The report a diff compares with is the last of those saved before it.   *)
THEOREM DiffComparesWithTheLast == Spec => []ComparedWithTheLast
<1>1. DiffInv /\ TypeOK => ComparedWithTheLast
  <2> SUFFICES ASSUME DiffInv, TypeOK, base # "none", found # -1
               PROVE  /\ generated[base] < before
                      /\ \A s \in savedByThen :
                           generated[s] < before => generated[s] <= generated[base]
    BY DEF ComparedWithTheLast
  <2>1. found \in Seconds
    BY DEF TypeOK
  <2>2. QED
    BY <2>1 DEF DiffInv, ChosenIsLast, BaseIsChosen
<1>2. TypeOK /\ DiffInv /\ [Next]_vars => DiffInv'
  BY FilesStep, ChosenStep DEF DiffInv
<1>3. QED
  BY <1>1, <1>2, DiffInit, TypeCorrect, PTL DEF Spec

-----------------------------------------------------------------------------
(* What the diff says.                                                     *)

LEMMA PredecessorIsNamed ==
  ASSUME NEW drivers \in Seq([name : Names, version : Versions]), NEW key,
         Named(drivers, key)
  PROVE  \E i \in DOMAIN drivers :
           Key(drivers[i]) = key /\ Predecessor(drivers, key) = drivers[i]
<1> DEFINE I == {i \in 1 .. Len(drivers) : Key(drivers[i]) = key}
<1>1. Predecessor(drivers, key) = drivers[IF I # {} THEN Min(I) ELSE 0]
  BY DEF Predecessor, SelectInSeq
<1>2. I # {} /\ Len(drivers) \in Nat
  BY DEF Named
<1>3. I \in SUBSET (1 .. Len(drivers))
  OBVIOUS
<1>4. \A i \in I : i \in DOMAIN drivers /\ Key(drivers[i]) = key
  OBVIOUS
<1> HIDE DEF I
<1>5. Min(I) \in I
  BY <1>2, <1>3, LeastIndex
<1>6. QED
  BY <1>1, <1>2, <1>4, <1>5

LEMMA GoneKeys ==
  ASSUME NEW drivers \in Seq([name : Names, version : Versions]), NEW others
  PROVE  LowerAll(Gone(drivers, others)) = {k \in Keys(drivers) : ~Named(others, k)}
BY DEF LowerAll, Gone, Keys, Key, ToSet, Named

LEMMA DiffExplainsDrivers ==
  ASSUME NEW old \in Seq([name : Names, version : Versions]),
         NEW new \in Seq([name : Names, version : Versions]),
         NEW diff, diff.driversAdded = Gone(new, old), diff.driversRemoved = Gone(old, new),
         diff.driversChanged = Changed(old, new)
  PROVE  DriversExplained(old, new, diff)
<1>1. Keys(new) = (Keys(old) \ LowerAll(diff.driversRemoved)) \cup LowerAll(diff.driversAdded)
  <2>1. \A k : Named(old, k) <=> k \in Keys(old)
    BY DEF Named, Keys
  <2>2. \A k : Named(new, k) <=> k \in Keys(new)
    BY DEF Named, Keys
  <2>3. LowerAll(diff.driversRemoved) = {k \in Keys(old) : ~Named(new, k)}
    BY GoneKeys
  <2>4. LowerAll(diff.driversAdded) = {k \in Keys(new) : ~Named(old, k)}
    BY GoneKeys
  <2>5. QED
    BY <2>1, <2>2, <2>3, <2>4
<1>2. ASSUME OneEach(old), NEW i \in DOMAIN old, NEW j \in DOMAIN new,
             Key(old[i]) = Key(new[j])
      PROVE  old[i].version # new[j].version <=>
               [name |-> new[j].name, from |-> old[i].version, to |-> new[j].version]
                 \in Changed(old, new)
  <2>1. Named(old, Key(new[j]))
    BY <1>2 DEF Named
  <2>2. Predecessor(old, Key(new[j])) = old[i]
    BY <1>2, <2>1, PredecessorIsNamed DEF OneEach
  <2>3. new[j] \in ToSet(new)
    BY DEF ToSet
  <2>4. ASSUME old[i].version # new[j].version
        PROVE  [name |-> new[j].name, from |-> old[i].version, to |-> new[j].version]
                 \in Changed(old, new)
    BY <2>1, <2>2, <2>3, <2>4 DEF Changed
  <2>5. ASSUME [name |-> new[j].name, from |-> old[i].version, to |-> new[j].version]
                 \in Changed(old, new)
        PROVE  old[i].version # new[j].version
    <3>1. PICK d \in ToSet(new) :
            /\ Predecessor(old, Key(d)).version # d.version
            /\ d.name = new[j].name
            /\ Predecessor(old, Key(d)).version = old[i].version
            /\ d.version = new[j].version
      BY <2>5 DEF Changed
    <3>2. QED
      BY <3>1
  <2>6. QED
    BY <2>4, <2>5
<1>3. QED
  BY <1>1, <1>2 DEF DriversExplained

LEMMA DiffExplains ==
  ASSUME NEW old \in Machines \cup {NoReport}, NEW new \in Machines \cup {NoReport}
  PROVE  LET diff == ReportDiff(old, new)
         IN  /\ new.causes = (old.causes \ diff.causesResolved) \cup diff.causesNew
             /\ new.devices = (old.devices \ diff.devicesResolved) \cup diff.devicesNew
             /\ DriversExplained(old.drivers, new.drivers, diff)
             /\ IsEmpty(diff) =>
                  /\ new.causes = old.causes /\ new.devices = old.devices
                  /\ Keys(new.drivers) = Keys(old.drivers)
<1> DEFINE diff == ReportDiff(old, new)
<1>1. /\ old.drivers \in Seq([name : Names, version : Versions])
      /\ new.drivers \in Seq([name : Names, version : Versions])
  <2>1. <<>> \in Seq([name : Names, version : Versions])
    OBVIOUS
  <2>2. \A m \in Machines : m.drivers \in Seq([name : Names, version : Versions])
    BY StoreAssumption
  <2>3. NoReport.drivers = <<>>
    BY DEF NoReport
  <2>4. QED
    BY <2>1, <2>2, <2>3
<1>2. /\ diff.driversAdded = Gone(new.drivers, old.drivers)
      /\ diff.driversRemoved = Gone(old.drivers, new.drivers)
      /\ diff.driversChanged = Changed(old.drivers, new.drivers)
      /\ diff.devicesNew = new.devices \ old.devices
      /\ diff.devicesResolved = old.devices \ new.devices
      /\ diff.causesNew = new.causes \ old.causes
      /\ diff.causesResolved = old.causes \ new.causes
  BY DEF ReportDiff
<1>3. IsEmpty(diff) =>
        /\ diff.driversAdded = {} /\ diff.driversRemoved = {}
        /\ diff.devicesNew = {} /\ diff.devicesResolved = {}
        /\ diff.causesNew = {} /\ diff.causesResolved = {}
  BY DEF IsEmpty, ReportDiff
<1> HIDE DEF diff
<1>4. DriversExplained(old.drivers, new.drivers, diff)
  BY <1>1, <1>2, DiffExplainsDrivers
<1>5. IsEmpty(diff) => Keys(new.drivers) = Keys(old.drivers)
  BY <1>3, <1>4 DEF DriversExplained, LowerAll
<1>6. QED
  BY <1>2, <1>3, <1>4, <1>5 DEF diff

(* A report that was compared with stays what it was.                      *)
Compared ==
  differ = "compared" =>
    /\ base \in Scanners
    /\ comparison = ReportDiff(report[base], current)

LEMMA ComparedStep == TypeOK /\ DiffInv /\ Compared /\ [Next]_vars => Compared'
<1> SUFFICES ASSUME TypeOK, DiffInv, Compared, [Next]_vars PROVE Compared'
  OBVIOUS
<1> USE DEF Compared
<1>1. ASSUME NEW s \in Scanners, Scan(s) PROVE Compared'
  <2>1. UNCHANGED <<differ, base, current, comparison>>
    BY <1>1, ScanKeeps
  <2>2. differ = "compared" => report'[base] = report[base]
    <3>1. \/ report' = report
          \/ scan[s] = "idle" /\ \E m : report' = [report EXCEPT ![s] = m]
      BY <1>1 DEF Scan, Start, Create, Write, NotSaved, WriteFails, Killed
    <3>2. differ = "compared" => base \in Scanners /\ scan[base] = "saved"
      BY StoreAssumption DEF DiffInv, BaseIsChosen
    <3>3. report \in [Scanners -> Machines \cup {NoReport}]
      BY DEF TypeOK
    <3>4. QED
      BY <3>1, <3>2, <3>3
  <2>3. QED
    BY <2>1, <2>2
<1>2. CASE Compare
  BY <1>2 DEF Compare, TypeOK
<1>3. CASE Tick \/ BeginDiff \/ List \/ Load \/ LoadNamed \/ UNCHANGED vars
  BY <1>3 DEF Tick, BeginDiff, List, Load, LoadNamed, vars
<1>4. QED
  BY <1>1, <1>2, <1>3 DEF Next, Diff

(* A diff explains how the saved report became the current one, and an     *)
(* empty one leaves nothing to explain (ReportDiff, diff).                 *)
THEOREM DiffIsTrue == Spec => []DiffExplainsTheChange
<1>1. Init => Compared
  BY DEF Init, Compared
<1>2. TypeOK /\ Compared => DiffExplainsTheChange
  <2> SUFFICES ASSUME TypeOK, Compared, differ = "compared" PROVE DiffExplainsTheChange
    BY DEF DiffExplainsTheChange
  <2>1. /\ report[base] \in Machines \cup {NoReport}
        /\ current \in Machines \cup {NoReport}
        /\ comparison = ReportDiff(report[base], current)
    BY DEF TypeOK, Compared
  <2>2. QED
    BY <2>1, DiffExplains DEF DiffExplainsTheChange
<1>3. TypeOK /\ DiffInv /\ [Next]_vars => DiffInv'
  BY FilesStep, ChosenStep DEF DiffInv
<1>4. QED
  BY <1>1, <1>2, <1>3, DiffInit, ComparedStep, TypeCorrect, PTL DEF Spec
=============================================================================
