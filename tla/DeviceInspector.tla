-------------------------- MODULE DeviceInspector ---------------------------
(***************************************************************************)
(* Devices with a problem code (device_inspector.rs): the list of present  *)
(* devices is taken once, the status and the name of each are asked for    *)
(* one after the other, while devices fail, recover and are removed.       *)
(***************************************************************************)
EXTENDS Ordering, SequencesExt

CONSTANTS
  DeviceList,  \* the present devices in the order of the device tree
  ProblemCodes,   \* CM_PROB codes a device may report, 0 among them
  FirstProblems,  \* device |-> its code at first
  Title,       \* device |-> a number that sorts as its name does
  UnknownTitle,   \* "Unknown device"
  MaxTrouble   \* bound: changes of the devices

Plugged == ToSet(DeviceList)

ASSUME DeviceAssumption ==
  /\ DeviceList \in Seq(Plugged) /\ IsInjective(DeviceList)
  /\ 0 \in ProblemCodes
  /\ FirstProblems \in [Plugged -> ProblemCodes]
  /\ Title \in [Plugged -> Nat] /\ UnknownTitle \in Nat
  /\ MaxTrouble \in Nat

VARIABLES
  problem,   \* what CM_Get_DevNode_Status answers of each device
  present,   \* devices it finds
  treeOpen,  \* step of collect_device_problems
  index,     \* devices enumerated
  broken,    \* results
  deviceStatus,
  trouble,   \* changes so far
  hadProblem,   \* history: problem codes each device had since the scan began
  hasGone    \* history: devices that were removed since then

deviceVars == <<problem, present, treeOpen, index, broken, deviceStatus,
                trouble, hadProblem, hasGone>>

DevicesInit ==
  /\ problem = FirstProblems
  /\ present = Plugged
  /\ treeOpen = "open" /\ index = 0
  /\ broken = <<>> /\ deviceStatus = "none"
  /\ trouble = 0
  /\ hadProblem = [d \in Plugged |-> {problem[d]}]
  /\ hasGone = {}

-----------------------------------------------------------------------------
DeviceMoves ==
  /\ treeOpen # "done" /\ trouble < MaxTrouble
  /\ trouble' = trouble + 1
  /\ \/ \E d \in present, c \in ProblemCodes :
          /\ problem' = [problem EXCEPT ![d] = c]
          /\ hadProblem' = [hadProblem EXCEPT ![d] = @ \cup {c}]
          /\ UNCHANGED <<present, hasGone>>
     \/ \E d \in present :
          /\ present' = present \ {d}
          /\ hasGone' = hasGone \cup {d}
          /\ UNCHANGED <<problem, hadProblem>>
  /\ UNCHANGED <<treeOpen, index, broken, deviceStatus>>

treeVars == <<problem, present, trouble, hadProblem, hasGone>>

OpenTree ==
  /\ treeOpen = "open"
  /\ \/ /\ treeOpen' = "enumerate" /\ UNCHANGED deviceStatus
     \/ /\ treeOpen' = "done" /\ deviceStatus' = "failed"
  /\ UNCHANGED <<treeVars, index, broken>>

(* Variant: a device that cannot be asked ends the enumeration.            *)
AskDevice_Stops ==
  /\ treeOpen = "enumerate" /\ index < Len(DeviceList)
  /\ LET d == DeviceList[index + 1] IN
     /\ index' = IF d \in present THEN index + 1 ELSE Len(DeviceList)
     /\ IF d \notin present \/ problem[d] = 0
        THEN UNCHANGED <<treeOpen, broken>>
        ELSE /\ broken' = Append(broken, [device |-> d, code |-> problem[d], title |-> UnknownTitle])
             /\ treeOpen' = "name"
  /\ UNCHANGED <<treeVars, deviceStatus>>

(* A device that cannot be asked, or has no problem, is passed over.  Of   *)
(* one that has, the name is asked for next.                               *)
AskDevice ==
  /\ treeOpen = "enumerate" /\ index < Len(DeviceList)
  /\ index' = index + 1
  /\ LET d == DeviceList[index'] IN
     IF d \notin present \/ problem[d] = 0
     THEN UNCHANGED <<treeOpen, broken>>
     ELSE /\ broken' = Append(broken, [device |-> d, code |-> problem[d], title |-> UnknownTitle])
          /\ treeOpen' = "name"
  /\ UNCHANGED <<treeVars, deviceStatus>>

(* Friendly name or description; neither is found of a device that has     *)
(* gone since.                                                             *)
DeviceName ==
  /\ treeOpen = "name"
  /\ treeOpen' = "enumerate"
  /\ LET d == broken[Len(broken)].device IN
       broken' = IF d \in present
                 THEN [broken EXCEPT ![Len(broken)].title = Title[d]]
                 ELSE broken
  /\ UNCHANGED <<treeVars, index, deviceStatus>>

(* By the names found, stable.                                             *)
ByTitle == {p \in Pairs(DOMAIN broken) :
              \/ broken[p[1]].title < broken[p[2]].title
              \/ broken[p[1]].title = broken[p[2]].title /\ p[1] < p[2]}

SortDevices ==
  /\ treeOpen = "enumerate" /\ index = Len(DeviceList)
  /\ broken' = Arranged(broken, DOMAIN broken, ByTitle)
  /\ deviceStatus' = "complete"
  /\ treeOpen' = "done"
  /\ UNCHANGED <<treeVars, index>>

CollectDevices == OpenTree \/ AskDevice \/ DeviceName \/ SortDevices

-----------------------------------------------------------------------------
(* An answer names each device at most once, with a code the device had    *)
(* during the scan, whatever happens to the device between two questions;  *)
(* a device that stayed and had a problem all the time is in it, whatever  *)
(* happened to the others (device_inspector.rs 35-58).                     *)
BrokenDevicesAreFound == treeOpen = "done" =>
  LET named == {broken[i].device : i \in DOMAIN broken} IN
  /\ Cardinality(named) = Len(broken)
  /\ \A i \in DOMAIN broken :
       /\ broken[i].code # 0 /\ broken[i].code \in hadProblem[broken[i].device]
       /\ \A j \in i .. Len(broken) : broken[i].title <= broken[j].title
  /\ deviceStatus = "complete" =>
       {d \in Plugged \ hasGone : 0 \notin hadProblem[d]} \subseteq named
=============================================================================
