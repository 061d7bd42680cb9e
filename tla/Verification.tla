---------------------------- MODULE Verification ---------------------------
(***************************************************************************)
(* Naming the driver that crashed the machine, and proving it guilty: a    *)
(* machine over several boots, the dumps its crashes leave, and one        *)
(* WinSleuth process at a time that scans them (`winsleuth scan`) or arms  *)
(* Driver Verifier against the suspects (`winsleuth verify`).              *)
(*                                                                         *)
(* At each boot the loader puts every image somewhere else; the boots of a *)
(* 32-bit Windows put them below KernelBase.  Drivers are removed and      *)
(* dumps deleted at any time, also while they are read, and a crash ends   *)
(* whatever process runs.                                                  *)
(***************************************************************************)
EXTENDS CrashDumps, FiniteSets

CONSTANTS
  Drivers,      \* driver images; names that differ in letter case are one
  OsDrivers,    \* the operating system's
  Removable,    \* those that may be removed
  Flagged,      \* known-vulnerable or contending for sensors
  Order,        \* driver |-> its place in the inventory
  Size,         \* driver |-> the size of its image
  Placement,    \* boot |-> where its loader may put the images: driver |-> base
  App,          \* the application of the user-mode dumps
  Library,      \* a library in its address space
  Codes,        \* the stop codes of the crashes
  MaxSuspects,  \* MAX_SUSPECTS, 8 in the code
  MaxBoots      \* bound: boots

AppBase == 1

ASSUME DriverAssumption ==
  /\ OsDrivers \subseteq Drivers /\ Flagged \subseteq Drivers \ OsDrivers
  /\ Removable \subseteq Drivers \ OsDrivers
  /\ IsFiniteSet(Drivers)
  /\ Order \in [Drivers -> Nat]
  /\ \A d, e \in Drivers : Order[d] = Order[e] => d = e
  /\ {App, Library, None} \cap Drivers = {}
  /\ App # None /\ Library # None /\ App # Library
ASSUME PlacementAssumption ==
  /\ Size \in [Drivers -> Nat \ {0}]
  /\ Placement \in [1 .. MaxBoots -> SUBSET [Drivers -> Nat \ {0}]]
  /\ \A b \in 1 .. MaxBoots : \A p \in Placement[b] : \A d, e \in Drivers :
       d # e => p[d] + Size[d] <= p[e] \/ p[e] + Size[e] <= p[d]
ASSUME BoundAssumption ==
  /\ MaxSuspects \in Nat \ {0} /\ MaxBoots \in Nat \ {0}

VARIABLES
  boots,        \* which boot this is
  installed,    \* drivers the next boot loads
  loaded,       \* driver |-> base, for what this boot loaded
  configured,   \* drivers Verifier is to check from the next boot on
  active,       \* drivers Verifier checks in this boot
  files,        \* dump files
  culprits,     \* drivers that crashed the machine; not in the code
  (* The WinSleuth process. *)
  phase,        \* "idle", "reading", "reported", "asked", "arming"
  elevated,     \* does it have Administrator rights?
  verifying,    \* is it `winsleuth verify --suspects`?
  agreed,       \* has the user agreed: --yes, or an answer?
  inventory,    \* the drivers it found
  seen,         \* the files there when it looked; not in the code
  todo,         \* dump files it has still to read
  current,      \* the one whose time it has just read
  records,      \* the records of those read
  unreadable,   \* could some file not be parsed?
  plan,         \* the drivers it wants to arm
  told          \* the drivers named in the notice on the screen

machineVars == <<boots, installed, loaded, configured, active, files, culprits>>
readVars == <<todo, current, records, unreadable>>
sessionVars == <<phase, elevated, verifying, agreed, inventory, seen, readVars, plan, told>>
vars == <<machineVars, sessionVars>>

NoFile == [kind |-> "none"]
Images(placed) == {[name |-> d, base |-> placed[d], size |-> Size[d]] : d \in DOMAIN placed}

(* No process runs: whatever it knew is gone.                              *)
ProcessEnds ==
  /\ phase' = "idle" /\ elevated' = FALSE /\ verifying' = FALSE /\ agreed' = FALSE
  /\ inventory' = {} /\ seen' = {} /\ todo' = {} /\ current' = NoFile
  /\ records' = {} /\ unreadable' = FALSE /\ plan' = {} /\ told' = {}

Init ==
  /\ boots = 1 /\ installed = Drivers /\ loaded \in Placement[1]
  /\ configured = {} /\ active = {} /\ files = {} /\ culprits = {}
  /\ phase = "idle" /\ elevated = FALSE /\ verifying = FALSE /\ agreed = FALSE
  /\ inventory = {} /\ seen = {} /\ todo = {} /\ current = NoFile
  /\ records = {} /\ unreadable = FALSE /\ plan = {} /\ told = {}

-----------------------------------------------------------------------------
(* The machine.                                                            *)

Restart ==
  /\ boots < MaxBoots
  /\ boots' = boots + 1
  /\ \E p \in Placement[boots'] : loaded' = [d \in installed |-> p[d]]
  /\ active' = configured
  /\ ProcessEnds
  /\ UNCHANGED <<installed, configured>>

(* Where Windows documents the address of the faulting instruction.        *)
Documented(code) ==
  CASE code \in {"0A", "D1"} -> 4
    [] code \in {"1E", "3B", "7E", "8E", "1000007E", "1000008E"} -> 2
    [] code = "50" -> 3
    [] OTHER -> 0

Parameters(code, at, other) == [i \in 1 .. 4 |-> IF i = Documented(code) THEN at ELSE other]

KernelDump(d, kind, extent, code, at, other, images) ==
  [boot |-> boots, kind |-> kind, extent |-> extent, code |-> code,
   parameters |-> Parameters(code, at, other), images |-> images, guilty |-> d]

(* What a crash of d leaves: a dump with its table, one whose table was    *)
(* damaged so that another image is where d's is, one cut off before the   *)
(* table or in a layout without one, one with nothing of use.  The other   *)
(* parameters are addresses too, like that of a context record.            *)
Saved(d, code, at) ==
  LET images == Images(loaded)
      own == [name |-> d, base |-> loaded[d], size |-> Size[d]]
  IN  {KernelDump(d, "small", "whole", code, at, loaded[e], images) : e \in DOMAIN loaded \ {d}}
        \cup {KernelDump(d, "small", "whole", code, at, NoAddress,
                         (images \ {m}) \cup {[m EXCEPT !.base = own.base]}) : m \in images \ {own}}
        \cup {KernelDump(d, "small", "header", code, at, NoAddress, {}),
              KernelDump(d, "full", "whole", code, at, NoAddress, {}),
              KernelDump(d, "small", "nothing", "none", NoAddress, NoAddress, {})}

(* MEMORY.DMP is one file: the next full dump overwrites it.               *)
Overwritten(f) == IF f.kind = "full" THEN {g \in files : g.kind = "full"} ELSE {}

(* Driver d crashes the machine at one of its own addresses, or after a    *)
(* jump to no address; Verifier stops only what it checks.                 *)
Crash(d) ==
  /\ \E code \in Codes, at \in (loaded[d] .. loaded[d] + Size[d] - 1) \cup {NoAddress} :
       /\ code = "C4" => d \in active
       /\ \E f \in Saved(d, code, at) : files' = (files \ Overwritten(f)) \cup {f}
  /\ culprits' = culprits \cup {d}
  /\ Restart

Reboot == Restart /\ UNCHANGED <<files, culprits>>

(* The application crashes in an instruction of its own, over address at:  *)
(* that of the instruction, one in a library that it wrote to, or none.    *)
LibraryBase == AppBase + 1
UserDump(extent, at) ==
  [boot |-> 0, kind |-> "user", extent |-> extent, code |-> "exception",
   parameters |-> [i \in 1 .. 4 |-> IF i = 1 THEN at ELSE NoAddress],
   images |-> {[name |-> App, base |-> AppBase, size |-> 1],
               [name |-> Library, base |-> LibraryBase, size |-> 1]},
   guilty |-> App]

(* The machine goes on.  A dump written while a process runs is in no      *)
(* listing of its.                                                         *)
AppCrash ==
  /\ phase = "idle"
  /\ \A f \in files : f.kind # "user"
  /\ \E extent \in {"nothing", "whole"}, at \in {AppBase, LibraryBase, NoAddress} :
       /\ extent = "nothing" => at = NoAddress
       /\ files' = files \cup {UserDump(extent, at)}
  /\ UNCHANGED <<boots, installed, loaded, configured, active, culprits, sessionVars>>

(* Once all dumps are read it makes no difference to the process.          *)
DeleteDump ==
  /\ phase \in {"idle", "reading"}
  /\ \E f \in files : files' = files \ {f}
  /\ UNCHANGED <<boots, installed, loaded, configured, active, culprits, sessionVars>>

(* A process reads the inventory once, as it begins.                       *)
Uninstall(d) ==
  /\ phase = "idle"
  /\ d \in installed \cap Removable
  /\ installed' = installed \ {d}
  /\ UNCHANGED <<boots, loaded, configured, active, files, culprits, sessionVars>>

Machine ==
  \/ \E d \in DOMAIN loaded : Crash(d)
  \/ Reboot \/ AppCrash \/ DeleteDump
  \/ \E d \in Drivers : Uninstall(d)

-----------------------------------------------------------------------------
(* Reading the dumps.                                                      *)

(* The directory of the small dumps is closed to a process without         *)
(* Administrator rights; MEMORY.DMP exists for it, but does not open.      *)
Listing(rights) == IF rights THEN files ELSE {f \in files : f.kind # "small"}

(* `verify` returns at once without Administrator rights.                  *)
Begin ==
  /\ phase = "idle"
  /\ \E rights, verify, yes \in BOOLEAN :
       /\ verify => rights
       /\ yes => verify
       /\ elevated' = rights /\ verifying' = verify /\ agreed' = yes
       /\ todo' = Listing(rights)
  /\ phase' = "reading"
  /\ inventory' = installed \cup DOMAIN loaded
  /\ seen' = files
  /\ UNCHANGED <<machineVars, current, records, unreadable, plan, told>>

(* file_time: a file that has vanished is skipped.                         *)
Stat(f) ==
  /\ phase = "reading" /\ current = NoFile /\ f \in todo
  /\ todo' = todo \ {f}
  /\ current' = IF f \in files THEN f ELSE NoFile
  /\ UNCHANGED <<machineVars, phase, elevated, verifying, agreed, inventory, seen,
                 records, unreadable, plan, told>>

Opens(f) == f \in files /\ (f.kind = "full" => elevated)

(* Variant: what could not be parsed is skipped.                           *)
Analyse_Skips ==
  /\ phase = "reading" /\ current # NoFile
  /\ current' = NoFile
  /\ records' = IF Opens(current) /\ Decodable(current) THEN records \cup {Record(current)} ELSE records
  /\ UNCHANGED <<machineVars, phase, elevated, verifying, agreed, inventory, seen,
                 todo, unreadable, plan, told>>

(* Variant: dumps are resolved against the drivers loaded now.             *)
Analyse_CurrentModules ==
  /\ phase = "reading" /\ current # NoFile
  /\ current' = NoFile
  /\ IF Opens(current) /\ Decodable(current)
     THEN /\ LET resolved == Record([current EXCEPT !.images = Images(loaded)])
             IN  records' = records \cup {[resolved EXCEPT !.dump = current]}
          /\ UNCHANGED unreadable
     ELSE unreadable' = TRUE /\ UNCHANGED records
  /\ UNCHANGED <<machineVars, phase, elevated, verifying, agreed, inventory, seen,
                 todo, plan, told>>

(* The file is opened only now: gone, closed or unintelligible, it counts  *)
(* as one that could not be parsed.                                        *)
Analyse ==
  /\ phase = "reading" /\ current # NoFile
  /\ current' = NoFile
  /\ IF Opens(current) /\ Decodable(current)
     THEN records' = records \cup {Record(current)} /\ UNCHANGED unreadable
     ELSE unreadable' = TRUE /\ UNCHANGED records
  /\ UNCHANGED <<machineVars, phase, elevated, verifying, agreed, inventory, seen,
                 todo, plan, told>>

Complete == elevated /\ ~unreadable /\ \A r \in records : ~r.degraded

-----------------------------------------------------------------------------
(* Choosing the suspects.                                                  *)

(* The modules of driver-fault causes: what kernel dumps established.      *)
Named == {r.module : r \in {s \in records : s.dump.kind # "user"}} \ {None}
Eligible(d) == d \in inventory \ OsDrivers

(* Does d come before e?  First what was named, the strongest cause first, *)
(* then what is flagged, as the inventory lists it.                        *)
Before(d, e, rank) ==
  \/ d \in Named /\ (e \notin Named \/ rank[d] < rank[e])
  \/ d \notin Named /\ e \notin Named /\ Order[d] < Order[e]

(* Variant: whoever was named is armed, third-party or not.                *)
Suspects_AnyNamed == Named \cup {d \in Flagged : Eligible(d)}
Suspects == {d \in Named \cup Flagged : Eligible(d)}

PlanFromReport(rank) ==
  {d \in Suspects : Cardinality({e \in Suspects : Before(e, d, rank)}) < MaxSuspects}

(* The order in which the causes were ranked.                              *)
Rankings ==
  {rank \in [Named -> 1 .. Cardinality(Named)] :
     \A d, e \in Named : rank[d] = rank[e] => d = e}

-----------------------------------------------------------------------------
(* The two commands, once every dump has been read.                        *)

ReadAll == phase = "reading" /\ todo = {} /\ current = NoFile

Report ==
  /\ ReadAll /\ ~verifying
  /\ phase' = "reported"
  /\ UNCHANGED <<machineVars, elevated, verifying, agreed, inventory, seen, readVars, plan, told>>

Leave ==
  /\ phase = "reported"
  /\ ProcessEnds
  /\ UNCHANGED machineVars

NothingToArm ==
  /\ ReadAll /\ verifying /\ Suspects = {}
  /\ ProcessEnds
  /\ UNCHANGED machineVars

(* Variant: with --yes the notice is not printed.                          *)
Notice_Quiet ==
  /\ ReadAll /\ verifying /\ Suspects # {}
  /\ \E rank \in Rankings : plan' = PlanFromReport(rank)
  /\ told' = IF agreed THEN {} ELSE plan'
  /\ phase' = "asked"
  /\ UNCHANGED <<machineVars, elevated, verifying, agreed, inventory, seen, readVars>>

(* The notice with the drivers and the way back is printed before anything *)
(* is asked.                                                               *)
Notice ==
  /\ ReadAll /\ verifying /\ Suspects # {}
  /\ \E rank \in Rankings : plan' = PlanFromReport(rank) /\ told' = plan'
  /\ phase' = "asked"
  /\ UNCHANGED <<machineVars, elevated, verifying, agreed, inventory, seen, readVars>>

(* --yes, or the user says yes.                                            *)
Agree ==
  /\ phase = "asked"
  /\ phase' = "arming" /\ agreed' = TRUE
  /\ UNCHANGED <<machineVars, elevated, verifying, inventory, seen, readVars, plan, told>>

Decline ==
  /\ phase = "asked" /\ ~agreed
  /\ ProcessEnds
  /\ UNCHANGED machineVars

(* verifier.exe replaces its settings, or fails and leaves them.           *)
Arm ==
  /\ phase = "arming"
  /\ configured' \in {plan, configured}
  /\ ProcessEnds
  /\ UNCHANGED <<boots, installed, loaded, active, files, culprits>>

(* `winsleuth verify --off`                                                *)
Disable ==
  /\ phase = "idle"
  /\ configured' \in {{}, configured}
  /\ UNCHANGED <<boots, installed, loaded, active, files, culprits, sessionVars>>

Session ==
  \/ Begin \/ (\E f \in todo : Stat(f)) \/ Analyse
  \/ Report \/ Leave \/ NothingToArm \/ Notice \/ Agree \/ Decline \/ Arm \/ Disable

Next == Machine \/ Session
Spec == Init /\ [][Next]_vars

-----------------------------------------------------------------------------
(* Properties.                                                             *)

Kinds == {"small", "full", "user"}

IsFile(f) ==
  /\ f.kind \in Kinds
  /\ f.extent \in {"nothing", "header", "whole"}
  /\ f.guilty \in Drivers \cup {App}
  /\ f.boot \in 0 .. boots

TypeOK ==
  /\ boots \in 1 .. MaxBoots
  /\ installed \in SUBSET Drivers /\ OsDrivers \subseteq installed
  /\ \E on \in SUBSET Drivers, p \in Placement[boots] : loaded = [d \in on |-> p[d]]
  /\ configured \in SUBSET Drivers /\ active \in SUBSET Drivers /\ culprits \in SUBSET Drivers
  /\ phase \in {"idle", "reading", "reported", "asked", "arming"}
  /\ {elevated, verifying, agreed, unreadable} \subseteq BOOLEAN
  /\ inventory \in SUBSET Drivers /\ plan \in SUBSET Drivers /\ told \in SUBSET Drivers
  /\ current # NoFile => current \in seen
  /\ todo \subseteq seen
  /\ \A f \in files \cup seen : IsFile(f)
  /\ \A r \in records : r.dump \in seen /\ r.module \in Drivers \cup {App, Library, None}

(* What a dump says of module m: of a kernel dump, that it was executing;  *)
(* of an application's, that the crash address is in its image.            *)
Established(f, m) ==
  IF f.kind = "user"
  THEN \E i \in f.images : i.name = m /\ Contains(i, f.parameters[1])
  ELSE m = f.guilty

(* A driver that the record of a kernel dump names was executing at the    *)
(* moment of the crash - though the images were elsewhere in other boots,  *)
(* drivers have gone since and tables were damaged ("a wrong answer does   *)
(* the most damage", WHITE_PAPER.md).  The record of an application's dump *)
(* names a module of that process, the one with the crash address.         *)
AttributionIsTrue == \A r \in records : r.module # None => Established(r.dump, r.module)

(* When the collection of the dumps is called complete, no crash is        *)
(* missing and none is without a culprit that could have one: every dump   *)
(* that was there, and still is, has a record, which names a module if the *)
(* dump holds the address of the faulting instruction in the 64-bit        *)
(* kernel, or a crash address in one of the process's images.  Dumps of a  *)
(* 32-bit Windows, and of an application that ran over an address in no    *)
(* module, have a record without a name and no word of it.                 *)
Resolvable(f) ==
  IF f.kind = "user"
  THEN \E i \in f.images : Contains(i, f.parameters[1])
  ELSE Documented(f.code) # 0 /\ IsKernelAddress(f.parameters[Documented(f.code)])

DumpsAreAccountedFor ==
  phase \in {"reported", "asked", "arming"} /\ Complete =>
    \A f \in seen \cap files :
      \E r \in records : r.dump = f /\ (Resolvable(f) => Established(f, r.module))

(* "Arms Verifier against only the drivers under suspicion - never every   *)
(* driver on the system, and never a Microsoft one" (USER_GUIDE.md): an    *)
(* armed driver is known for trouble or has crashed this machine, though   *)
(* its dump may be gone, and there are at most MaxSuspects.                *)
Deserved(ds) ==
  /\ ds \subseteq (Flagged \cup culprits) \ OsDrivers
  /\ Cardinality(ds) <= MaxSuspects

OnlySuspectsAreArmed == Deserved(configured) /\ Deserved(active) /\ Deserved(plan)

(* "Every path here prints the recovery procedure before arming anything": *)
(* a driver is armed only after a notice that named it, and after consent. *)
NothingIsArmedUntold ==
  [][\A d \in configured' \ configured : d \in told /\ agreed]_vars
=============================================================================
