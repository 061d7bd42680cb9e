------------------------- MODULE VerificationProofs ------------------------
(***************************************************************************)
(* Verification for any drivers, placements, codes and bounds: a driver    *)
(* that is named was executing, a complete collection misses no dump, and  *)
(* only announced suspects are armed.                                      *)
(***************************************************************************)
EXTENDS Verification, FiniteSetTheorems, TLAPS

(***************************************************************************)
(* One dump.                                                               *)
(***************************************************************************)

(* The record of a dump names a module of which the dump says enough, or   *)
(* none; if it could have named one and did not, it says that it is        *)
(* degraded.                                                               *)
Genuine(f) ==
  /\ Record(f).dump = f
  /\ Record(f).module # None => Established(f, Record(f).module)
  /\ Resolvable(f) /\ ~Established(f, Record(f).module) => Record(f).degraded

(* Where the modules of an application's dump come from.                   *)
OfTheProcess(f) == f.kind = "user" => \A i \in f.images : i.name \in {App, Library}

(* The code and Microsoft agree on the parameter.                          *)
LEMMA ParameterIsDocumented ==
  ASSUME NEW code
  PROVE  CulpritParameter(code) = Documented(code) /\ Documented(code) \in {0, 2, 3, 4}
BY DEF CulpritParameter, Documented

(* The culprit address of a crash of d at an address of its own, or at no  *)
(* address, is that address; there is one if the code documents it.        *)
LEMMA CulpritAddressOf ==
  ASSUME NEW code, NEW at, NEW other
  PROVE  LET parameters == Parameters(code, at, other)
         IN  /\ Documented(code) # 0 => parameters[Documented(code)] = at
             /\ CulpritAddress(code, parameters) \in {at, NoAddress}
             /\ Documented(code) # 0 /\ IsKernelAddress(at)
                  => CulpritAddress(code, parameters) = at
             /\ ~IsKernelAddress(at) => CulpritAddress(code, parameters) = NoAddress
<1> DEFINE parameters == Parameters(code, at, other)
<1>1. CulpritParameter(code) = Documented(code) /\ Documented(code) \in {0, 2, 3, 4}
  BY ParameterIsDocumented
<1>2. \A i \in 1 .. 4 : parameters[i] = IF i = Documented(code) THEN at ELSE other
  BY DEF Parameters
<1>3. Documented(code) # 0 => parameters[Documented(code)] = at
  BY <1>1, <1>2
<1>4. QED
  BY <1>1, <1>3 DEF CulpritAddress

(* Of images that lie apart, an address is in one.                         *)
LEMMA OneImage ==
  ASSUME NEW images, NEW m \in images, NEW a, Contains(m, a),
         \A n \in images : Contains(n, a) => n = m
  PROVE  Attribute(a, images) = m.name
BY DEF Attribute

(* What the loader has put where.                                          *)
Placed == \E on \in SUBSET Drivers, p \in Placement[boots] : loaded = [d \in on |-> p[d]]

LEMMA LoadedApart ==
  ASSUME boots \in 1 .. MaxBoots, Placed, NEW d \in DOMAIN loaded
  PROVE  /\ d \in Drivers /\ loaded[d] \in Nat /\ loaded[d] # 0
         /\ Size[d] \in Nat /\ Size[d] # 0
         /\ \A e \in DOMAIN loaded :
              d # e => loaded[d] + Size[d] <= loaded[e] \/ loaded[e] + Size[e] <= loaded[d]
<1>1. PICK on \in SUBSET Drivers, p \in Placement[boots] : loaded = [e \in on |-> p[e]]
  BY DEF Placed
<1>2. /\ p \in [Drivers -> Nat \ {0}]
      /\ \A e, g \in Drivers : e # g => p[e] + Size[e] <= p[g] \/ p[g] + Size[g] <= p[e]
  BY <1>1, PlacementAssumption
<1>3. DOMAIN loaded = on /\ \A e \in on : loaded[e] = p[e]
  BY <1>1
<1>4. d \in Drivers /\ loaded[d] = p[d] /\ p[d] \in Nat \ {0} /\ Size[d] \in Nat \ {0}
  BY <1>2, <1>3, PlacementAssumption
<1>5. QED
  BY <1>2, <1>3, <1>4

LEMMA KernelRecordFields ==
  ASSUME NEW f
  PROVE  LET a == CulpritAddress(f.code, f.parameters)
         IN  /\ KernelRecord(f).dump = f
             /\ KernelRecord(f).module =
                  IF a # NoAddress /\ TableAccepted(f) THEN Attribute(a, f.images) ELSE None
             /\ KernelRecord(f).degraded = (a # NoAddress /\ ~TableAccepted(f))
<1> DEFINE a == CulpritAddress(f.code, f.parameters)
           module == IF a # NoAddress /\ TableAccepted(f) THEN Attribute(a, f.images) ELSE None
           degraded == a # NoAddress /\ ~TableAccepted(f)
<1>1. KernelRecord(f) = [dump |-> f, module |-> module, degraded |-> degraded]
  BY DEF KernelRecord
<1> HIDE DEF module, degraded
<1>2. /\ KernelRecord(f).dump = f /\ KernelRecord(f).module = module
  BY <1>1
<1>3. KernelRecord(f).degraded = degraded
  BY <1>1
<1>4. QED
  BY <1>2, <1>3 DEF module, degraded

(* A dump without a usable table names nobody.                             *)
LEMMA NoTableIsGenuine ==
  ASSUME NEW f, f.kind \in {"small", "full"}, ~TableAccepted(f),
         Resolvable(f) => CulpritAddress(f.code, f.parameters) # NoAddress
  PROVE  Genuine(f)
<1>1. Record(f) = KernelRecord(f)
  BY DEF Record
<1>2. /\ Record(f).dump = f
      /\ Record(f).module = None
      /\ Record(f).degraded <=> CulpritAddress(f.code, f.parameters) # NoAddress
  BY <1>1, KernelRecordFields
<1>3. QED
  BY <1>2 DEF Genuine

LEMMA CrashDumpIsGenuine ==
  ASSUME boots \in 1 .. MaxBoots, Placed, NEW d \in DOMAIN loaded, NEW code,
         NEW at \in (loaded[d] .. loaded[d] + Size[d] - 1) \cup {NoAddress},
         NEW f \in Saved(d, code, at)
  PROVE  Genuine(f) /\ f.guilty = d /\ f.kind \in {"small", "full"}
         /\ f.extent \in {"nothing", "header", "whole"} /\ f.boot = boots
<1> DEFINE images == Images(loaded)
           own == [name |-> d, base |-> loaded[d], size |-> Size[d]]
<1>1. /\ d \in Drivers /\ loaded[d] \in Nat /\ loaded[d] # 0
      /\ Size[d] \in Nat /\ Size[d] # 0
      /\ \A e \in DOMAIN loaded :
           d # e => loaded[d] + Size[d] <= loaded[e] \/ loaded[e] + Size[e] <= loaded[d]
  BY LoadedApart
<1>2. \A e \in DOMAIN loaded : loaded[e] \in Nat /\ Size[e] \in Nat /\ Size[e] # 0
  BY LoadedApart
<1>3. own \in images
  BY DEF Images
<1>4. \A m \in images : /\ m.name \in DOMAIN loaded
                        /\ m = [name |-> m.name, base |-> loaded[m.name], size |-> Size[m.name]]
                        /\ m.name = d => m = own
  BY DEF Images
<1>5. at = NoAddress \/ (at \in Int /\ at >= loaded[d] /\ at < loaded[d] + Size[d])
  BY <1>1
<1>6. ~IsKernelAddress(NoAddress)
  BY KernelAssumption DEF IsKernelAddress, NoAddress
<1>7. ASSUME NEW other
      PROVE  LET parameters == Parameters(code, at, other)
             IN  /\ CulpritAddress(code, parameters) \in {at, NoAddress}
                 /\ Documented(code) # 0 /\ IsKernelAddress(parameters[Documented(code)])
                      => CulpritAddress(code, parameters) = at /\ at # NoAddress
  BY <1>6, CulpritAddressOf
<1>8. CASE \E e \in DOMAIN loaded \ {d} :
             f = KernelDump(d, "small", "whole", code, at, loaded[e], images)
  <2>1. PICK e \in DOMAIN loaded \ {d} :
          f = KernelDump(d, "small", "whole", code, at, loaded[e], images)
    BY <1>8
  <2>2. /\ f.guilty = d /\ f.kind = "small" /\ f.images = images /\ f.code = code
        /\ f.parameters = Parameters(code, at, loaded[e])
        /\ f.extent = "whole" /\ f.boot = boots
    BY <2>1 DEF KernelDump
  <2>3. Record(f) = KernelRecord(f)
    BY <2>2 DEF Record
  <2>4. ASSUME at # NoAddress PROVE Attribute(at, images) = d
    <3>1. Contains(own, at)
      BY <1>1, <1>5, <2>4 DEF Contains
    <3>2. ASSUME NEW n \in images, Contains(n, at) PROVE n = own
      <4>1. n.base = loaded[n.name] /\ n.size = Size[n.name] /\ n.name \in DOMAIN loaded
        BY <1>4, <3>2
      <4>2. n.name = d
        BY <1>1, <1>2, <1>5, <2>4, <3>2, <4>1 DEF Contains
      <4>3. QED
        BY <1>4, <4>2
    <3>3. Attribute(at, images) = own.name
      BY <1>3, <3>1, <3>2, OneImage
    <3>4. QED
      BY <3>3
  <2>5. Resolvable(f) => CulpritAddress(f.code, f.parameters) = at /\ at # NoAddress
    BY <2>2, <1>7 DEF Resolvable
  <2>6. CulpritAddress(f.code, f.parameters) \in {at, NoAddress}
    BY <2>2, <1>7
  <2>7. /\ Record(f).dump = f
        /\ Record(f).module = IF CulpritAddress(f.code, f.parameters) # NoAddress /\ TableAccepted(f)
                              THEN Attribute(CulpritAddress(f.code, f.parameters), images) ELSE None
        /\ Record(f).degraded <=> CulpritAddress(f.code, f.parameters) # NoAddress /\ ~TableAccepted(f)
    <3>1. /\ KernelRecord(f).dump = f
          /\ KernelRecord(f).module =
               IF CulpritAddress(f.code, f.parameters) # NoAddress /\ TableAccepted(f)
               THEN Attribute(CulpritAddress(f.code, f.parameters), f.images) ELSE None
          /\ KernelRecord(f).degraded
               = (CulpritAddress(f.code, f.parameters) # NoAddress /\ ~TableAccepted(f))
      BY KernelRecordFields
    <3>2. f.images = images
      BY <2>2
    <3>3. QED
      BY <2>3, <3>1, <3>2
  <2>8. Record(f).module \in {d, None}
    BY <2>4, <2>6, <2>7
  <2>9. Resolvable(f) /\ Record(f).module # d => Record(f).degraded
    BY <2>4, <2>5, <2>7
  <2>10. \A module : Established(f, module) <=> module = d
    BY <2>2 DEF Established
  <2>11. QED
    BY <2>2, <2>7, <2>8, <2>9, <2>10 DEF Genuine
<1>9. CASE \E m \in images \ {own} :
             f = KernelDump(d, "small", "whole", code, at, NoAddress,
                            (images \ {m}) \cup {[m EXCEPT !.base = own.base]})
  <2>1. PICK m \in images \ {own} :
          f = KernelDump(d, "small", "whole", code, at, NoAddress,
                         (images \ {m}) \cup {[m EXCEPT !.base = own.base]})
    BY <1>9
  <2> DEFINE moved == [m EXCEPT !.base = own.base]
  <2>2. /\ f.guilty = d /\ f.kind = "small" /\ f.code = code
        /\ f.parameters = Parameters(code, at, NoAddress)
        /\ f.images = (images \ {m}) \cup {moved}
        /\ f.extent = "whole" /\ f.boot = boots
    BY <2>1 DEF KernelDump
  <2>3. m.name # d /\ m.name \in DOMAIN loaded /\ m.size = Size[m.name]
    BY <2>1, <1>4
  <2>4. moved.name = m.name /\ moved.base = loaded[d] /\ moved.size = Size[m.name]
    BY <2>3, <2>1, <1>4
  <2>5. moved # own /\ moved \in f.images /\ own \in f.images
    BY <2>1, <2>2, <2>3, <2>4, <1>3
  <2>6. ~TableAccepted(f)
    <3>1. ~(moved.base + moved.size <= own.base) /\ ~(own.base + own.size <= moved.base)
      BY <1>1, <1>2, <2>3, <2>4
    <3>2. QED
      BY <2>5, <3>1 DEF TableAccepted
  <2>7. Resolvable(f) => CulpritAddress(f.code, f.parameters) # NoAddress
    BY <2>2, <1>7 DEF Resolvable
  <2>8. QED
    BY <2>2, <2>6, <2>7, NoTableIsGenuine
<1>10. CASE f \in {KernelDump(d, "small", "header", code, at, NoAddress, {}),
                   KernelDump(d, "full", "whole", code, at, NoAddress, {})}
  <2>1. /\ f.guilty = d /\ f.kind \in {"small", "full"} /\ f.code = code
        /\ f.parameters = Parameters(code, at, NoAddress) /\ f.images = {}
        /\ f.extent \in {"header", "whole"} /\ f.boot = boots
    BY <1>10 DEF KernelDump
  <2>2. ~TableAccepted(f)
    BY <2>1 DEF TableAccepted
  <2>3. Resolvable(f) => CulpritAddress(f.code, f.parameters) # NoAddress
    BY <2>1, <1>7 DEF Resolvable
  <2>4. QED
    BY <2>1, <2>2, <2>3, NoTableIsGenuine
<1>11. CASE f = KernelDump(d, "small", "nothing", "none", NoAddress, NoAddress, {})
  <2>1. /\ f.guilty = d /\ f.kind = "small" /\ f.code = "none"
        /\ f.extent = "nothing" /\ f.boot = boots
    BY <1>11 DEF KernelDump
  <2>2. ~TableAccepted(f)
    BY <2>1 DEF TableAccepted
  <2>3. Documented("none") = 0
    BY DEF Documented
  <2>4. Resolvable(f) => CulpritAddress(f.code, f.parameters) # NoAddress
    BY <2>1, <2>3 DEF Resolvable
  <2>5. Genuine(f)
    BY <2>1, <2>2, <2>4, NoTableIsGenuine
  <2>6. QED
    BY <2>1, <2>5
<1>12. QED
  BY <1>8, <1>9, <1>10, <1>11 DEF Saved

LEMMA UserDumpIsGenuine ==
  ASSUME NEW extent \in {"nothing", "whole"}, NEW at \in Int
  PROVE  LET f == UserDump(extent, at)
         IN  Genuine(f) /\ OfTheProcess(f) /\ f.guilty = App /\ f.kind = "user"
             /\ f.extent = extent /\ f.boot = 0
<1> DEFINE f == UserDump(extent, at)
           own == [name |-> App, base |-> AppBase, size |-> 1]
           library == [name |-> Library, base |-> LibraryBase, size |-> 1]
<1>1. /\ f.guilty = App /\ f.kind = "user" /\ f.extent = extent /\ f.boot = 0
      /\ f.parameters[1] = at /\ f.images = {own, library}
  BY DEF UserDump
<1> HIDE DEF f
<1>2. Record(f) = UserRecord(f)
  BY <1>1 DEF Record
<1>3. Record(f).dump = f /\ Record(f).module = Attribute(at, f.images)
  BY <1>1, <1>2 DEF UserRecord
<1>4. ASSUME NEW i \in f.images, Contains(i, at) PROVE Attribute(at, f.images) = i.name
  <2>1. ASSUME NEW n \in f.images, Contains(n, at) PROVE n = i
    BY <1>1, <1>4, <2>1 DEF Contains, AppBase, LibraryBase
  <2>2. QED
    BY <1>4, <2>1, OneImage
<1>5. (\A i \in f.images : ~Contains(i, at)) => Attribute(at, f.images) = None
  BY DEF Attribute
<1>6. \A m : Established(f, m) <=> \E i \in f.images : i.name = m /\ Contains(i, at)
  BY <1>1 DEF Established
<1>7. Resolvable(f) <=> \E i \in f.images : Contains(i, at)
  BY <1>1 DEF Resolvable
<1>8. Genuine(f)
  BY <1>3, <1>4, <1>5, <1>6, <1>7 DEF Genuine
<1>9. OfTheProcess(f)
  BY <1>1 DEF OfTheProcess
<1>10. QED
  BY <1>1, <1>8, <1>9 DEF f

(***************************************************************************)
(* The plan.                                                               *)
(***************************************************************************)
Ahead(d, rank) == {e \in Suspects : Before(e, d, rank)}

(* Before orders the suspects, and whoever comes before d comes before     *)
(* those that come after d.                                                *)
LEMMA BeforeIsAnOrder ==
  ASSUME NEW rank, \A d \in Named : rank[d] \in Int,
         \A d, e \in Named : rank[d] = rank[e] => d = e,
         Suspects \subseteq Drivers
  PROVE  /\ \A d \in Suspects : ~Before(d, d, rank)
         /\ \A d, e \in Suspects : d # e => Before(d, e, rank) \/ Before(e, d, rank)
         /\ \A d, e \in Suspects : Before(d, e, rank) => Ahead(d, rank) \subseteq Ahead(e, rank)
<1>1. \A d \in Suspects : Order[d] \in Int
  BY DriverAssumption
<1>2. \A d, e \in Suspects : Order[d] = Order[e] => d = e
  BY DriverAssumption
<1>3. \A d \in Suspects : ~Before(d, d, rank)
  BY <1>1 DEF Before
<1>4. \A d, e \in Suspects : d # e => Before(d, e, rank) \/ Before(e, d, rank)
  BY <1>1, <1>2 DEF Before
<1>5. ASSUME NEW c \in Suspects, NEW d \in Suspects, NEW e \in Suspects,
             Before(c, d, rank), Before(d, e, rank)
      PROVE  Before(c, e, rank)
  BY <1>1, <1>5 DEF Before
<1>6. QED
  BY <1>3, <1>4, <1>5 DEF Ahead

(* At most MaxSuspects are armed at once: each of them has its own number  *)
(* of suspects before it, and all these numbers are below MaxSuspects.     *)
LEMMA PlanIsShort ==
  ASSUME NEW rank, \A d \in Named : rank[d] \in Int,
         \A d, e \in Named : rank[d] = rank[e] => d = e,
         Suspects \subseteq Drivers
  PROVE  Cardinality(PlanFromReport(rank)) <= MaxSuspects
<1> DEFINE P == PlanFromReport(rank)
           place == [d \in P |-> Cardinality(Ahead(d, rank))]
<1>1. P \subseteq Suspects /\ \A d \in P : Cardinality(Ahead(d, rank)) < MaxSuspects
  BY DEF PlanFromReport, Ahead
<1>2. IsFiniteSet(Suspects)
  BY DriverAssumption, FS_Subset
<1>3. \A d : IsFiniteSet(Ahead(d, rank)) /\ Cardinality(Ahead(d, rank)) \in Nat
  BY <1>2, FS_Subset, FS_CardinalityType DEF Ahead
<1>4. place \in [P -> 0 .. MaxSuspects - 1]
  BY <1>1, <1>3, BoundAssumption
<1>5. ASSUME NEW d \in Suspects, NEW e \in Suspects, Before(d, e, rank)
      PROVE  Cardinality(Ahead(d, rank)) # Cardinality(Ahead(e, rank))
  <2>1. Ahead(d, rank) \in SUBSET Ahead(e, rank)
    BY <1>5, BeforeIsAnOrder
  <2>2. d \in Ahead(e, rank) /\ d \notin Ahead(d, rank)
    BY <1>5, BeforeIsAnOrder DEF Ahead
  <2>3. QED
    BY <1>3, <2>1, <2>2, FS_Subset
<1>6. \A d, e \in P : place[d] = place[e] => d = e
  BY <1>1, <1>5, BeforeIsAnOrder
<1>7. place \in Injection(P, 0 .. MaxSuspects - 1)
  BY <1>4, <1>6 DEF Injection, IsInjective
<1>8. IsFiniteSet(0 .. MaxSuspects - 1) /\ Cardinality(0 .. MaxSuspects - 1) = MaxSuspects
  BY BoundAssumption, FS_Interval
<1>9. QED
  BY <1>7, <1>8, FS_Injection

(***************************************************************************)
(* The machine and the process.                                            *)
(***************************************************************************)
After == {"reported", "asked", "arming"}

(* Every file is genuine, and whoever crashed the machine is remembered.   *)
FilesInv ==
  \A f \in files \cup seen :
    Genuine(f) /\ OfTheProcess(f) /\ (f.kind # "user" => f.guilty \in culprits)

RecordsInv == \A r \in records : r = Record(r.dump)

(* A file seen and still there is on its way to a record, or the process   *)
(* knows that it could not read one.                                       *)
ReadInv ==
  /\ phase \in {"reading"} \cup After /\ elevated =>
       \A f \in seen \cap files : f \in todo \/ f = current \/ unreadable \/ Record(f) \in records
  /\ phase \in After => todo = {} /\ current = NoFile

(* No process, no records.                                                 *)
IdleInv == phase = "idle" => current = NoFile /\ records = {}

NoticeInv ==
  /\ phase \in {"asked", "arming"} => told = plan
  /\ phase = "arming" => agreed

SessionTypes ==
  /\ phase \in {"idle", "reading", "reported", "asked", "arming"}
  /\ {elevated, verifying, agreed, unreadable} \subseteq BOOLEAN
  /\ inventory \in SUBSET Drivers /\ plan \in SUBSET Drivers /\ told \in SUBSET Drivers
  /\ current # NoFile => current \in seen
  /\ todo \subseteq seen
  /\ \A r \in records : r.dump \in seen

IInv == TypeOK /\ FilesInv /\ RecordsInv /\ ReadInv /\ OnlySuspectsAreArmed /\ NoticeInv /\ IdleInv

LEMMA NothingDeserved == Deserved({})
BY FS_EmptySet, BoundAssumption DEF Deserved

LEMMA InitIInv == Init => IInv
<1>1. SUFFICES ASSUME Init PROVE IInv
  OBVIOUS
<1>2. PICK p \in Placement[boots] : loaded = [d \in Drivers |-> p[d]]
  BY <1>1, BoundAssumption, PlacementAssumption DEF Init
<1>3. TypeOK
  <2>1. \E on \in SUBSET Drivers, q \in Placement[boots] : loaded = [d \in on |-> q[d]]
    BY <1>2
  <2>2. boots \in 1 .. MaxBoots
    BY <1>1, BoundAssumption DEF Init
  <2>3. /\ installed \in SUBSET Drivers /\ OsDrivers \subseteq installed
        /\ configured \in SUBSET Drivers /\ active \in SUBSET Drivers /\ culprits \in SUBSET Drivers
        /\ inventory \in SUBSET Drivers /\ plan \in SUBSET Drivers /\ told \in SUBSET Drivers
    BY <1>1, DriverAssumption DEF Init
  <2>4. files \cup seen = {} /\ records = {} /\ todo = {} /\ current = NoFile
    BY <1>1 DEF Init
  <2>5. phase = "idle" /\ {elevated, verifying, agreed, unreadable} \subseteq BOOLEAN
    BY <1>1 DEF Init
  <2>6. QED
    BY <2>1, <2>2, <2>3, <2>4, <2>5 DEF TypeOK
<1>4. OnlySuspectsAreArmed
  BY <1>1, NothingDeserved DEF Init, OnlySuspectsAreArmed
<1>5. QED
  BY <1>1, <1>3, <1>4 DEF Init, IInv, FilesInv, RecordsInv, ReadInv, NoticeInv, IdleInv, After

(* When a process has ended, what is said of it holds.                     *)
LEMMA EndedProcess ==
  ASSUME ProcessEnds
  PROVE  /\ SessionTypes' /\ RecordsInv' /\ ReadInv' /\ NoticeInv' /\ IdleInv'
         /\ seen' = {} /\ records' = {} /\ plan' = {}
BY DEF ProcessEnds, SessionTypes, RecordsInv, ReadInv, NoticeInv, IdleInv, After

LEMMA RestartTypes ==
  ASSUME TypeOK, Restart
  PROVE  /\ boots' \in 1 .. MaxBoots /\ boots' >= boots
         /\ installed' \in SUBSET Drivers /\ OsDrivers \subseteq installed'
         /\ Placed'
         /\ configured' = configured /\ active' = configured
<1>1. boots' \in 1 .. MaxBoots /\ boots' >= boots
  BY BoundAssumption DEF TypeOK, Restart
<1>2. PICK p \in Placement[boots'] : loaded' = [d \in installed |-> p[d]]
  BY DEF Restart
<1>3. installed' = installed /\ installed \in SUBSET Drivers /\ OsDrivers \subseteq installed
  BY DEF TypeOK, Restart
<1>4. Placed'
  BY <1>2, <1>3 DEF Placed
<1>5. QED
  BY <1>1, <1>3, <1>4 DEF Restart

LEMMA SeenTypes ==
  ASSUME TypeOK, FilesInv, NEW f \in files \cup seen
  PROVE  /\ f # NoFile
         /\ Record(f).dump = f
         /\ Record(f).module \in Drivers \cup {App, Library, None}
<1>1. IsFile(f) /\ Genuine(f) /\ OfTheProcess(f)
  BY DEF TypeOK, FilesInv
<1>2. \A m : Established(f, m) => m \in Drivers \cup {App, Library}
  BY <1>1 DEF Established, OfTheProcess, IsFile
<1>3. f # NoFile
  BY <1>1 DEF IsFile, Kinds, NoFile
<1>4. QED
  BY <1>1, <1>2, <1>3 DEF Genuine

(* Restarts and the ends of processes.                                     *)
LEMMA CrashKeeps ==
  ASSUME IInv, NEW d \in DOMAIN loaded, Crash(d)
  PROVE  IInv'
<1>1. PICK code \in Codes, at \in (loaded[d] .. loaded[d] + Size[d] - 1) \cup {NoAddress} :
        \E f \in Saved(d, code, at) : files' = (files \ Overwritten(f)) \cup {f}
  BY DEF Crash
<1>2. PICK f \in Saved(d, code, at) : files' = (files \ Overwritten(f)) \cup {f}
  BY <1>1
<1>3. boots \in 1 .. MaxBoots /\ Placed /\ d \in Drivers
  BY LoadedApart DEF IInv, TypeOK, Placed
<1>4. Genuine(f) /\ f.guilty = d /\ f.kind \in {"small", "full"}
      /\ f.extent \in {"nothing", "header", "whole"} /\ f.boot = boots
  BY <1>3, CrashDumpIsGenuine
<1>5. ProcessEnds /\ Restart /\ culprits' = culprits \cup {d}
  BY DEF Crash, Restart
<1>6. SessionTypes' /\ RecordsInv' /\ ReadInv' /\ NoticeInv' /\ IdleInv' /\ seen' = {} /\ records' = {} /\ plan' = {}
  BY <1>5, EndedProcess
<1>7. /\ boots' \in 1 .. MaxBoots /\ boots' >= boots
      /\ installed' \in SUBSET Drivers /\ OsDrivers \subseteq installed'
      /\ Placed'
      /\ configured' = configured /\ active' = configured
  BY <1>5, RestartTypes DEF IInv
<1>8. \A g \in files' : IsFile(g)' /\ Genuine(g) /\ OfTheProcess(g)
  <2>1. \A g \in files : IsFile(g)' /\ Genuine(g) /\ OfTheProcess(g)
    BY <1>3, <1>7 DEF IInv, TypeOK, FilesInv, IsFile
  <2>2. IsFile(f)' /\ Genuine(f) /\ OfTheProcess(f)
    BY <1>3, <1>4, <1>7 DEF IsFile, Kinds, OfTheProcess
  <2>3. QED
    BY <1>2, <2>1, <2>2
<1>9. TypeOK'
  <2>1. configured' \in SUBSET Drivers /\ active' \in SUBSET Drivers /\ culprits' \in SUBSET Drivers
    BY <1>3, <1>5, <1>7 DEF IInv, TypeOK
  <2>2. QED
    BY <1>6, <1>7, <1>8, <2>1 DEF TypeOK, SessionTypes, Placed
<1>10. FilesInv'
  <2>1. \A g \in files' : g.kind # "user" => g.guilty \in culprits'
    BY <1>2, <1>4, <1>5 DEF IInv, FilesInv
  <2>2. QED
    BY <1>6, <1>8, <2>1 DEF FilesInv
<1>11. OnlySuspectsAreArmed'
  BY <1>5, <1>6, <1>7, NothingDeserved DEF IInv, OnlySuspectsAreArmed, Deserved
<1>12. QED
  BY <1>6, <1>9, <1>10, <1>11 DEF IInv

LEMMA RebootKeeps ==
  ASSUME IInv, Reboot
  PROVE  IInv'
<1>1. ProcessEnds /\ Restart /\ culprits' = culprits /\ files' = files
  BY DEF Reboot, Restart
<1>2. SessionTypes' /\ RecordsInv' /\ ReadInv' /\ NoticeInv' /\ IdleInv' /\ seen' = {} /\ records' = {} /\ plan' = {}
  BY <1>1, EndedProcess
<1>3. /\ boots' \in 1 .. MaxBoots /\ boots' >= boots
      /\ installed' \in SUBSET Drivers /\ OsDrivers \subseteq installed'
      /\ Placed'
      /\ configured' = configured /\ active' = configured
  BY <1>1, RestartTypes DEF IInv
<1>4. \A g \in files' : IsFile(g)'
  BY <1>1, <1>3 DEF IInv, TypeOK, IsFile
<1>5. TypeOK'
  <2>1. configured' \in SUBSET Drivers /\ active' \in SUBSET Drivers /\ culprits' \in SUBSET Drivers
    BY <1>1, <1>3 DEF IInv, TypeOK
  <2>2. QED
    BY <1>2, <1>3, <1>4, <2>1 DEF TypeOK, SessionTypes, Placed
<1>6. FilesInv'
  BY <1>1, <1>2 DEF IInv, FilesInv
<1>7. OnlySuspectsAreArmed'
  BY <1>1, <1>2, <1>3, NothingDeserved DEF IInv, OnlySuspectsAreArmed, Deserved
<1>8. QED
  BY <1>2, <1>5, <1>6, <1>7 DEF IInv

LEMMA EndKeeps ==
  ASSUME IInv, ProcessEnds, configured' \in {configured, plan},
         UNCHANGED <<boots, installed, loaded, active, files, culprits>>
  PROVE  IInv'
<1>1. SessionTypes' /\ RecordsInv' /\ ReadInv' /\ NoticeInv' /\ IdleInv' /\ seen' = {} /\ records' = {} /\ plan' = {}
  BY EndedProcess
<1>2. \A g \in files' : IsFile(g)'
  BY DEF IInv, TypeOK, IsFile
<1>3. TypeOK'
  BY <1>1, <1>2 DEF IInv, TypeOK, SessionTypes
<1>4. FilesInv'
  BY <1>1 DEF IInv, FilesInv
<1>5. OnlySuspectsAreArmed'
  BY <1>1, NothingDeserved DEF IInv, OnlySuspectsAreArmed, Deserved
<1>6. QED
  BY <1>1, <1>3, <1>4, <1>5 DEF IInv

(* What happens around a process.                                          *)
LEMMA AppCrashKeeps ==
  ASSUME IInv, AppCrash
  PROVE  IInv'
<1>1. PICK extent \in {"nothing", "whole"}, at \in {AppBase, LibraryBase, NoAddress} :
        files' = files \cup {UserDump(extent, at)}
  BY DEF AppCrash
<1>a. at \in Int
  BY <1>1 DEF AppBase, LibraryBase, NoAddress
<1> DEFINE f == UserDump(extent, at)
<1>2. Genuine(f) /\ OfTheProcess(f) /\ f.guilty = App /\ f.kind = "user" /\ f.extent = extent /\ f.boot = 0
  BY <1>a, UserDumpIsGenuine
<1> HIDE DEF f
<1>3. /\ phase = "idle"
      /\ UNCHANGED <<boots, installed, loaded, configured, active, culprits, sessionVars>>
  BY DEF AppCrash
<1>4. \A g \in files' \cup seen' : IsFile(g)'
  <2>1. \A g \in files \cup seen : IsFile(g)'
    BY <1>3 DEF IInv, TypeOK, IsFile, sessionVars
  <2>2. IsFile(f)'
    BY <1>1, <1>2, <1>3 DEF IsFile, Kinds, IInv, TypeOK
  <2>3. QED
    BY <1>1, <1>3, <2>1, <2>2 DEF sessionVars, f
<1>5. TypeOK'
  BY <1>3, <1>4 DEF IInv, TypeOK, sessionVars, readVars
<1>6. FilesInv'
  <2>1. \A g \in files' \cup seen' : g \in files \cup seen \/ g = f
    BY <1>1, <1>3 DEF sessionVars, f
  <2>2. QED
    BY <1>2, <1>3, <2>1 DEF IInv, FilesInv
<1>7. RecordsInv' /\ ReadInv' /\ OnlySuspectsAreArmed' /\ NoticeInv' /\ IdleInv'
  BY <1>3 DEF IInv, RecordsInv, ReadInv, OnlySuspectsAreArmed, Deserved, NoticeInv, IdleInv, After,
              sessionVars, readVars
<1>8. QED
  BY <1>5, <1>6, <1>7 DEF IInv

(* Files go, drivers go, Verifier is switched off, nothing happens.        *)
LEMMA LossKeeps ==
  ASSUME IInv, files' \subseteq files,
         installed' \in SUBSET Drivers, OsDrivers \subseteq installed',
         configured' \in {configured, {}},
         UNCHANGED <<boots, loaded, active, culprits, sessionVars>>
  PROVE  IInv'
<1>1. \A g \in files' \cup seen' : IsFile(g)'
  BY DEF IInv, TypeOK, IsFile, sessionVars
<1>2. TypeOK'
  BY <1>1 DEF IInv, TypeOK, sessionVars, readVars
<1>3. FilesInv'
  BY DEF IInv, FilesInv, sessionVars
<1>4. RecordsInv' /\ NoticeInv' /\ IdleInv'
  BY DEF IInv, RecordsInv, NoticeInv, IdleInv, sessionVars, readVars
<1>5. ReadInv'
  BY DEF IInv, ReadInv, After, sessionVars, readVars
<1>6. OnlySuspectsAreArmed'
  BY NothingDeserved DEF IInv, OnlySuspectsAreArmed, Deserved, sessionVars
<1>7. QED
  BY <1>2, <1>3, <1>4, <1>5, <1>6 DEF IInv

(* The steps of a process.                                                 *)
LEMMA BeginKeeps ==
  ASSUME IInv, Begin
  PROVE  IInv'
<1>1. PICK rights, verify, yes \in BOOLEAN :
        elevated' = rights /\ verifying' = verify /\ agreed' = yes /\ todo' = Listing(rights)
  BY DEF Begin
<1>2. /\ phase = "idle" /\ phase' = "reading"
      /\ inventory' = installed \cup DOMAIN loaded /\ seen' = files
      /\ UNCHANGED <<machineVars, current, records, unreadable, plan, told>>
  BY DEF Begin
<1>3. DOMAIN loaded \subseteq Drivers
  BY DEF IInv, TypeOK
<1>4. todo' \subseteq files
  BY <1>1 DEF Listing
<1>5. \A g \in files' \cup seen' : IsFile(g)'
  BY <1>2 DEF IInv, TypeOK, IsFile, machineVars
<1>6. current' = NoFile /\ records' = {}
  BY <1>2 DEF IInv, IdleInv
<1>7. TypeOK'
  <2>1. inventory' \in SUBSET Drivers
    BY <1>2, <1>3 DEF IInv, TypeOK
  <2>2. {elevated', verifying', agreed', unreadable'} \subseteq BOOLEAN
    BY <1>1, <1>2 DEF IInv, TypeOK
  <2>3. QED
    BY <1>2, <1>4, <1>5, <1>6, <2>1, <2>2 DEF IInv, TypeOK, machineVars
<1>8. FilesInv'
  BY <1>2 DEF IInv, FilesInv, machineVars
<1>9. ReadInv'
  BY <1>1, <1>2 DEF ReadInv, After, Listing
<1>10. OnlySuspectsAreArmed' /\ NoticeInv' /\ IdleInv' /\ RecordsInv'
  BY <1>2, <1>6 DEF IInv, OnlySuspectsAreArmed, Deserved, NoticeInv, IdleInv, RecordsInv, machineVars
<1>11. QED
  BY <1>7, <1>8, <1>9, <1>10 DEF IInv

LEMMA StatKeeps ==
  ASSUME IInv, NEW f \in todo, Stat(f)
  PROVE  IInv'
<1>1. /\ phase = "reading" /\ current = NoFile
      /\ todo' = todo \ {f}
      /\ current' = IF f \in files THEN f ELSE NoFile
      /\ UNCHANGED <<machineVars, phase, elevated, verifying, agreed, inventory, seen,
                     records, unreadable, plan, told>>
  BY DEF Stat
<1>2. f \in seen
  BY DEF IInv, TypeOK
<1>3. \A g \in files' \cup seen' : IsFile(g)'
  BY <1>1 DEF IInv, TypeOK, IsFile, machineVars
<1>4. TypeOK'
  BY <1>1, <1>2, <1>3 DEF IInv, TypeOK, machineVars
<1>5. FilesInv' /\ RecordsInv'
  BY <1>1 DEF IInv, FilesInv, RecordsInv, machineVars
<1>6. ReadInv'
  <2>1. ASSUME elevated, NEW g \in seen' \cap files'
        PROVE  g \in todo' \/ g = current' \/ unreadable' \/ Record(g) \in records'
    <3>1. g \in files /\ g \in seen /\ g # NoFile
      BY <1>1, <2>1, SeenTypes DEF IInv, machineVars
    <3>2. g \in todo \/ unreadable \/ Record(g) \in records
      BY <1>1, <2>1, <3>1 DEF IInv, ReadInv
    <3>3. QED
      BY <1>1, <3>1, <3>2
  <2>2. QED
    BY <1>1, <2>1 DEF ReadInv, After
<1>7. OnlySuspectsAreArmed' /\ NoticeInv' /\ IdleInv'
  BY <1>1 DEF IInv, OnlySuspectsAreArmed, Deserved, NoticeInv, IdleInv, machineVars
<1>8. QED
  BY <1>4, <1>5, <1>6, <1>7 DEF IInv

LEMMA AnalyseKeeps ==
  ASSUME IInv, Analyse
  PROVE  IInv'
<1>1. /\ phase = "reading" /\ current # NoFile /\ current' = NoFile
      /\ \/ records' = records \cup {Record(current)} /\ unreadable' = unreadable
         \/ records' = records /\ unreadable' = TRUE
      /\ UNCHANGED <<machineVars, phase, elevated, verifying, agreed, inventory, seen,
                     todo, plan, told>>
  BY DEF Analyse
<1>2. current \in seen
  BY <1>1 DEF IInv, TypeOK
<1>3. Record(current).dump = current /\ Record(current).module \in Drivers \cup {App, Library, None}
  BY <1>2, SeenTypes DEF IInv
<1>4. \A g \in files' \cup seen' : IsFile(g)'
  BY <1>1 DEF IInv, TypeOK, IsFile, machineVars
<1>5. \A r \in records' : r.dump \in seen' /\ r.module \in Drivers \cup {App, Library, None}
  BY <1>1, <1>2, <1>3 DEF IInv, TypeOK
<1>6. unreadable' \in BOOLEAN
  BY <1>1 DEF IInv, TypeOK
<1>7. TypeOK'
  BY <1>1, <1>4, <1>5, <1>6 DEF IInv, TypeOK, machineVars
<1>8. FilesInv' /\ RecordsInv'
  <2>1. FilesInv'
    BY <1>1 DEF IInv, FilesInv, machineVars
  <2>2. \A r \in records' : r = Record(r.dump)
    BY <1>1, <1>3 DEF IInv, RecordsInv
  <2>3. QED
    BY <2>1, <2>2 DEF RecordsInv
<1>9. ReadInv'
  <2>1. ASSUME elevated, NEW g \in seen' \cap files'
        PROVE  g \in todo' \/ g = current' \/ unreadable' \/ Record(g) \in records'
    <3>1. g \in todo \/ g = current \/ unreadable \/ Record(g) \in records
      BY <1>1, <2>1 DEF IInv, ReadInv, machineVars
    <3>2. QED
      BY <1>1, <3>1
  <2>2. QED
    BY <1>1, <2>1 DEF ReadInv, After
<1>10. OnlySuspectsAreArmed' /\ NoticeInv' /\ IdleInv'
  BY <1>1 DEF IInv, OnlySuspectsAreArmed, Deserved, NoticeInv, IdleInv, machineVars
<1>11. QED
  BY <1>7, <1>8, <1>9, <1>10 DEF IInv

(* What was named has crashed the machine, so the plan is deserved.        *)
LEMMA PlanIsDeserved ==
  ASSUME IInv, NEW rank \in Rankings
  PROVE  Deserved(PlanFromReport(rank)) /\ PlanFromReport(rank) \subseteq Drivers
<1>1. Named \subseteq Drivers /\ Named \subseteq culprits
  <2>1. ASSUME NEW r \in records, r.dump.kind # "user", r.module # None
        PROVE  r.module \in culprits
    <3>1. r.dump \in seen /\ r = Record(r.dump)
      BY DEF IInv, TypeOK, RecordsInv
    <3>2. Genuine(r.dump) /\ r.dump.guilty \in culprits
      BY <2>1, <3>1 DEF IInv, FilesInv
    <3>3. Established(r.dump, r.module)
      BY <2>1, <3>1, <3>2 DEF Genuine
    <3>4. QED
      BY <2>1, <3>2, <3>3 DEF Established
  <2>2. culprits \subseteq Drivers
    BY DEF IInv, TypeOK
  <2>3. QED
    BY <2>1, <2>2 DEF Named
<1>2. Suspects \subseteq Drivers /\ Suspects \subseteq (Flagged \cup culprits) \ OsDrivers
  BY <1>1 DEF Suspects, Eligible, IInv, TypeOK
<1>3. IsFiniteSet(Named)
  BY <1>1, DriverAssumption, FS_Subset
<1>4. Cardinality(Named) \in Nat
  BY <1>3, FS_CardinalityType
<1>5. /\ \A d \in Named : rank[d] \in Int
      /\ \A d, e \in Named : rank[d] = rank[e] => d = e
  BY <1>4 DEF Rankings
<1>6. Cardinality(PlanFromReport(rank)) <= MaxSuspects
  BY <1>2, <1>5, PlanIsShort
<1>7. PlanFromReport(rank) \subseteq Suspects
  BY DEF PlanFromReport
<1>8. QED
  BY <1>2, <1>6, <1>7 DEF Deserved

LEMMA NoticeKeeps ==
  ASSUME IInv, Notice
  PROVE  IInv'
<1>1. PICK rank \in Rankings : plan' = PlanFromReport(rank) /\ told' = plan'
  BY DEF Notice
<1>2. /\ phase = "reading" /\ phase' = "asked" /\ todo = {} /\ current = NoFile
      /\ UNCHANGED <<machineVars, elevated, verifying, agreed, inventory, seen, readVars>>
  BY DEF Notice, ReadAll
<1>3. Deserved(plan') /\ plan' \subseteq Drivers
  BY <1>1, PlanIsDeserved
<1>4. \A g \in files' \cup seen' : IsFile(g)'
  BY <1>2 DEF IInv, TypeOK, IsFile, machineVars
<1>5. TypeOK'
  BY <1>1, <1>2, <1>3, <1>4 DEF IInv, TypeOK, machineVars, readVars
<1>6. FilesInv' /\ RecordsInv'
  BY <1>2 DEF IInv, FilesInv, RecordsInv, machineVars, readVars
<1>7. ReadInv'
  BY <1>2 DEF IInv, ReadInv, After, machineVars, readVars
<1>8. OnlySuspectsAreArmed'
  BY <1>2, <1>3 DEF IInv, OnlySuspectsAreArmed, Deserved, machineVars
<1>9. NoticeInv' /\ IdleInv'
  BY <1>1, <1>2 DEF NoticeInv, IdleInv
<1>10. QED
  BY <1>5, <1>6, <1>7, <1>8, <1>9 DEF IInv

LEMMA ReportOrAgreeKeeps ==
  ASSUME IInv, Report \/ Agree
  PROVE  IInv'
<1>1. /\ \/ phase = "reading" /\ phase' = "reported" /\ todo = {} /\ current = NoFile /\ agreed' = agreed
         \/ phase = "asked" /\ phase' = "arming" /\ agreed' = TRUE
      /\ UNCHANGED <<machineVars, elevated, verifying, inventory, seen, readVars, plan, told>>
  BY DEF Report, ReadAll, Agree
<1>2. \A g \in files' \cup seen' : IsFile(g)'
  BY <1>1 DEF IInv, TypeOK, IsFile, machineVars
<1>3. TypeOK'
  BY <1>1, <1>2 DEF IInv, TypeOK, machineVars, readVars
<1>4. FilesInv' /\ RecordsInv' /\ OnlySuspectsAreArmed'
  BY <1>1 DEF IInv, FilesInv, RecordsInv, OnlySuspectsAreArmed, Deserved, machineVars, readVars
<1>5. ReadInv'
  BY <1>1 DEF IInv, ReadInv, After, machineVars, readVars
<1>6. NoticeInv' /\ IdleInv'
  BY <1>1 DEF IInv, NoticeInv, IdleInv
<1>7. QED
  BY <1>3, <1>4, <1>5, <1>6 DEF IInv

LEMMA NextIInv == IInv /\ [Next]_vars => IInv'
<1>1. SUFFICES ASSUME IInv, [Next]_vars PROVE IInv'
  OBVIOUS
<1>2. /\ installed \in SUBSET Drivers /\ OsDrivers \subseteq installed
  BY <1>1 DEF IInv, TypeOK
<1>3. ASSUME NEW d \in DOMAIN loaded, Crash(d) PROVE IInv'
  BY <1>1, <1>3, CrashKeeps
<1>4. CASE Reboot
  BY <1>1, <1>4, RebootKeeps
<1>5. CASE AppCrash
  BY <1>1, <1>5, AppCrashKeeps
<1>6. CASE DeleteDump
  BY <1>1, <1>2, <1>6, LossKeeps DEF DeleteDump
<1>7. ASSUME NEW d \in Drivers, Uninstall(d) PROVE IInv'
  <2>1. installed' = installed \ {d} /\ d \notin OsDrivers
    BY <1>7, DriverAssumption DEF Uninstall
  <2>2. QED
    BY <1>1, <1>2, <1>7, <2>1, LossKeeps DEF Uninstall
<1>8. CASE Disable
  BY <1>1, <1>2, <1>8, LossKeeps DEF Disable
<1>9. CASE Begin
  BY <1>1, <1>9, BeginKeeps
<1>10. ASSUME NEW f \in todo, Stat(f) PROVE IInv'
  BY <1>1, <1>10, StatKeeps
<1>11. CASE Analyse
  BY <1>1, <1>11, AnalyseKeeps
<1>12. CASE Report \/ Agree
  BY <1>1, <1>12, ReportOrAgreeKeeps
<1>13. CASE Notice
  BY <1>1, <1>13, NoticeKeeps
<1>14. CASE Leave \/ NothingToArm \/ Decline \/ Arm
  BY <1>1, <1>14, EndKeeps DEF Leave, NothingToArm, Decline, Arm, machineVars
<1>15. CASE UNCHANGED vars
  BY <1>1, <1>2, <1>15, LossKeeps DEF vars, machineVars
<1>16. QED
  BY <1>1, <1>3, <1>4, <1>5, <1>6, <1>7, <1>8, <1>9, <1>10, <1>11, <1>12, <1>13, <1>14, <1>15
     DEF Next, Machine, Session

LEMMA IInvHolds == Spec => []IInv
BY InitIInv, NextIInv, PTL DEF Spec

(***************************************************************************)
(* The theorems.                                                           *)
(***************************************************************************)

(* Machine and process keep their types, whatever crashes, goes or stays.  *)
THEOREM TypeCorrect == Spec => []TypeOK
<1>1. IInv => TypeOK
  BY DEF IInv
<1>2. QED
  BY <1>1, IInvHolds, PTL

(* A driver that the record of a kernel dump names was executing when the  *)
(* machine crashed, and that of an application's dump names the module of  *)
(* the process that has the crash address.                                 *)
THEOREM NoOneIsFramed == Spec => []AttributionIsTrue
<1>1. IInv => AttributionIsTrue
  <2>1. SUFFICES ASSUME IInv, NEW r \in records, r.module # None PROVE Established(r.dump, r.module)
    BY DEF AttributionIsTrue
  <2>2. r.dump \in seen /\ r = Record(r.dump)
    BY <2>1 DEF IInv, TypeOK, RecordsInv
  <2>3. Genuine(r.dump)
    BY <2>1, <2>2 DEF IInv, FilesInv
  <2>4. QED
    BY <2>1, <2>2, <2>3 DEF Genuine
<1>2. QED
  BY <1>1, IInvHolds, PTL

(* A collection that calls itself complete has read every dump that was    *)
(* there and still is, and named a module wherever a 64-bit kernel dump    *)
(* has the address of the faulting instruction, or an application's dump a *)
(* crash address within its images.                                        *)
THEOREM CompleteMeansComplete == Spec => []DumpsAreAccountedFor
<1>1. IInv => DumpsAreAccountedFor
  <2>1. SUFFICES ASSUME IInv, phase \in After, Complete, NEW f \in seen \cap files
                 PROVE  \E r \in records : r.dump = f /\ (Resolvable(f) => Established(f, r.module))
    BY DEF DumpsAreAccountedFor, After
  <2>2. elevated /\ ~unreadable /\ \A r \in records : ~r.degraded
    BY <2>1 DEF Complete
  <2>3. f # NoFile
    BY <2>1, SeenTypes DEF IInv
  <2>4. todo = {} /\ current = NoFile
    BY <2>1 DEF IInv, ReadInv
  <2>5. f \in todo \/ f = current \/ unreadable \/ Record(f) \in records
    BY <2>1, <2>2 DEF IInv, ReadInv
  <2>6. Record(f) \in records
    BY <2>2, <2>3, <2>4, <2>5
  <2>7. ~Record(f).degraded
    BY <2>2, <2>6
  <2>8. Genuine(f)
    BY <2>1 DEF IInv, FilesInv
  <2>9. QED
    BY <2>6, <2>7, <2>8 DEF Genuine
<1>2. QED
  BY <1>1, IInvHolds, PTL

(* Only third-party drivers known for trouble, or that crashed this very   *)
(* machine, are ever armed, and never more than MaxSuspects.               *)
THEOREM OnlySuspects == Spec => []OnlySuspectsAreArmed
<1>1. IInv => OnlySuspectsAreArmed
  BY DEF IInv
<1>2. QED
  BY <1>1, IInvHolds, PTL

(* Nothing is armed that the notice had not named, or without consent.     *)
THEOREM ToldBeforeArmed == Spec => NothingIsArmedUntold
<1>1. IInv /\ [Next]_vars => [\A d \in configured' \ configured : d \in told /\ agreed]_vars
  <2>1. SUFFICES ASSUME IInv, Next, NEW d \in configured' \ configured PROVE d \in told /\ agreed
    OBVIOUS
  <2>2. ASSUME NEW e \in DOMAIN loaded, Crash(e) PROVE FALSE
    BY <2>1, <2>2 DEF Crash, Restart
  <2>3. CASE Reboot \/ AppCrash \/ DeleteDump \/ \E e \in Drivers : Uninstall(e)
    BY <2>1, <2>3 DEF Reboot, Restart, AppCrash, DeleteDump, Uninstall
  <2>4. CASE Arm
    BY <2>1, <2>4 DEF Arm, IInv, NoticeInv
  <2>5. CASE Disable
    BY <2>1, <2>5 DEF Disable
  <2>6. CASE Begin \/ (\E f \in todo : Stat(f)) \/ Analyse
    BY <2>1, <2>6 DEF Begin, Stat, Analyse, machineVars
  <2>7. CASE Report \/ Leave \/ NothingToArm \/ Notice \/ Agree \/ Decline
    BY <2>1, <2>7 DEF Report, Leave, NothingToArm, Notice, Agree, Decline, machineVars
  <2>8. QED
    BY <2>1, <2>2, <2>3, <2>4, <2>5, <2>6, <2>7 DEF Next, Machine, Session
<1>2. QED
  BY <1>1, IInvHolds, PTL DEF Spec, NothingIsArmedUntold
=============================================================================
