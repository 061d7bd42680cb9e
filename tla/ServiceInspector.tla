-------------------------- MODULE ServiceInspector --------------------------
(***************************************************************************)
(* The services that look as if they had failed (service_inspector.rs):    *)
(* the enumeration of the Service Control Manager's database, page by      *)
(* page, each page a size probe and a call that fills the buffer, while    *)
(* services start, stop, come and go.  Sizes are counted in services; the  *)
(* resume handle is the number of the last service handed out, and a       *)
(* service created later has a higher number.                              *)
(***************************************************************************)
EXTENDS Ordering, SequencesExt

CONSTANTS
  ServiceNames,   \* services that may exist, as numbers: their order by name
  ServiceStates,  \* statuses: [state, exit, specific]
  FirstServices,  \* service |-> its status at first
  MaxMoved        \* bound: changes of the database

ASSUME ServiceAssumption ==
  /\ ServiceNames \subseteq Nat
  /\ \A s \in ServiceStates : {"state", "exit", "specific"} \subseteq DOMAIN s
  /\ DOMAIN FirstServices \subseteq ServiceNames /\ IsFiniteSet(DOMAIN FirstServices)
  /\ MaxMoved \in Nat

VARIABLES
  database,   \* installed services: name |-> [number, status]
  created,    \* the highest number given
  asking,     \* step of collect_problematic_services
  resume,     \* resume handle
  room,       \* the buffer's size: the answer of the probe
  failing,    \* results
  serviceStatus,  \* status of the answer
  moved,      \* changes of the database so far
  wasFailing, \* history: services that held a failure since the scan began
  stayed,     \* history: failing since then, without being created anew
  recreated,  \* history: services created since then
  cutOff      \* history: a call failed although services were left

serviceVars == <<database, created, asking, resume, room, failing, serviceStatus,
                 moved, wasFailing, stayed, recreated, cutOff>>

-----------------------------------------------------------------------------
(* Codes that mean that nothing went wrong.                                *)
BenignExitCodes == {0, 1077, 1062, 1063}

NeverStarted == [state |-> "stopped", exit |-> 1077, specific |-> 0]

(* candidate(): a running service is none however stale its exit code.     *)
Candidate(s) == /\ s.state = "stopped"
                /\ s.exit \in BenignExitCodes => s.specific # 0

Failures(db) == {n \in DOMAIN db : Candidate(db[n].status)}

ServicesInit ==
  /\ LET names == Sequenced(DOMAIN FirstServices, Ascending(ServiceNames)) IN
       database = [n \in DOMAIN FirstServices |->
                     [number |-> CHOOSE i \in DOMAIN names : names[i] = n,
                      status |-> FirstServices[n]]]
  /\ created = Cardinality(DOMAIN FirstServices)
  /\ asking = "open"
  /\ resume = 0 /\ room = 0
  /\ failing = <<>>
  /\ serviceStatus = "none"
  /\ moved = 0
  /\ wasFailing = Failures(database)
  /\ stayed = Failures(database)
  /\ recreated = {}
  /\ cutOff = FALSE

-----------------------------------------------------------------------------
(* The database, which is not the program's.                               *)

(* The record of what was failing is of the program's time only.           *)
Move(db) ==
  /\ asking # "done" /\ moved < MaxMoved
  /\ moved' = moved + 1
  /\ database' = db
  /\ wasFailing' = wasFailing \cup Failures(db)
  /\ UNCHANGED <<asking, resume, room, failing, serviceStatus, cutOff>>

ServiceMoves == \E n \in DOMAIN database, s \in ServiceStates :
  LET db == [database EXCEPT ![n].status = s] IN
  /\ Move(db)
  /\ stayed' = stayed \cap Failures(db)
  /\ UNCHANGED <<created, recreated>>

ServiceDeleted == \E n \in DOMAIN database :
  /\ Move(Restrict(database, DOMAIN database \ {n}))
  /\ stayed' = stayed \ {n}
  /\ UNCHANGED <<created, recreated>>

ServiceCreated == \E n \in ServiceNames \ DOMAIN database :
  /\ created' = created + 1
  /\ Move([m \in DOMAIN database \cup {n} |->
             IF m = n THEN [number |-> created', status |-> NeverStarted] ELSE database[m]])
  /\ recreated' = recreated \cup {n}
  /\ UNCHANGED stayed

-----------------------------------------------------------------------------
(* collect_problematic_services().                                         *)

(* The services behind the resume handle, in the order of their numbers.   *)
ByNumber == {p \in Pairs(DOMAIN database) : database[p[1]].number < database[p[2]].number}
Behind == Sequenced({n \in DOMAIN database : database[n].number > resume}, ByNumber)

databaseVars == <<database, created, moved, wasFailing, stayed, recreated>>

OpenManager ==
  /\ asking = "open"
  /\ \/ /\ asking' = "probe" /\ UNCHANGED serviceStatus
     \/ /\ asking' = "done" /\ serviceStatus' = "failed"
  /\ UNCHANGED <<databaseVars, resume, room, failing, cutOff>>

(* Nothing needed, or a failure for another reason than a buffer too       *)
(* small, which reads the same, ends the enumeration.                      *)
ProbeSize ==
  /\ asking = "probe"
  /\ \E needed \in {0, Len(Behind)} :
       /\ room' = needed
       /\ asking' = IF needed = 0 THEN "sort" ELSE "fetch"
       /\ cutOff' = (needed < Len(Behind))
  /\ UNCHANGED <<databaseVars, resume, failing, serviceStatus>>

(* Variants: the first page taken for the whole, and a call that returns   *)
(* nothing repeated.                                                       *)
LastPage_First(complete, returned) == TRUE
LastPage_Insists(complete, returned) == complete

(* A failed call leaves the loop only when it returned nothing.            *)
LastPage(complete, returned) == complete \/ returned = 0

(* The call returns as many as fit and the manager hands out at once; it   *)
(* succeeds when none is left.                                             *)
FetchPage ==
  /\ asking = "fetch"
  /\ \E returned \in 0 .. Len(Behind) :
       LET page == SubSeq(Behind, 1, returned)
           complete == returned = Len(Behind)
       IN
       /\ returned <= room
       /\ failing' = failing \o Filtered(page, {i \in DOMAIN page : Candidate(database[page[i]].status)})
       /\ resume' = IF returned = 0 THEN resume ELSE database[Last(page)].number
       /\ asking' = IF LastPage(complete, returned) THEN "sort" ELSE "probe"
       /\ cutOff' = (returned = 0 /\ ~complete)
  /\ UNCHANGED <<databaseVars, room, serviceStatus>>

(* By name, stable.                                                        *)
ByName == {p \in Pairs(DOMAIN failing) :
             \/ failing[p[1]] < failing[p[2]]
             \/ failing[p[1]] = failing[p[2]] /\ p[1] < p[2]}

(* Whatever ended the enumeration, the answer is complete.                 *)
SortServices ==
  /\ asking = "sort"
  /\ failing' = Arranged(failing, DOMAIN failing, ByName)
  /\ serviceStatus' = "complete"
  /\ asking' = "done"
  /\ UNCHANGED <<databaseVars, resume, room, cutOff>>

CollectServices == OpenManager \/ ProbeSize \/ FetchPage \/ SortServices

-----------------------------------------------------------------------------
(* Every service of an answer held a failure at some time of the scan,     *)
(* none is in it twice but one created anew, and none that failed          *)
(* throughout is missing, on whichever page it was, unless a call failed   *)
(* in between (service_inspector.rs 46-97); the answer is sorted, also     *)
(* what was created anew.  A running service with the exit code of long    *)
(* ago is the false alarm the module was rewritten against.                *)
FailedServicesAreFound == asking = "done" =>
  /\ ToSet(failing) \subseteq wasFailing
  /\ \A i, j \in DOMAIN failing : i < j =>
       /\ failing[i] <= failing[j]
       /\ failing[i] = failing[j] => failing[i] \in recreated
  /\ serviceStatus = "complete" /\ ~cutOff => stayed \subseteq ToSet(failing)
=============================================================================
