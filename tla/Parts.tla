-------------------------------- MODULE Parts -------------------------------
(***************************************************************************)
(* Four parts of the program that share no variable with one another or    *)
(* with the other modules: three collectors that read a list while the     *)
(* system changes it, and the evidence bundle.  Side by side they do what  *)
(* each does alone in any interleaving, so a behaviour here is one of one  *)
(* part, chosen at the start; the threads of a scan are in ScanEngine.     *)
(***************************************************************************)
EXTENDS ServiceInspector, DeviceInspector, ChangeTracker, Bundle

VARIABLE part

partVars == <<part, serviceVars, deviceVars, changeVars, bundleVars>>

Init ==
  /\ part \in {"services", "devices", "changes", "bundle"}
  /\ ServicesInit /\ DevicesInit /\ ChangesInit /\ BundleInit
  /\ part # "changes" => ~dayFirst
  /\ part # "bundle" => /\ message = CHOOSE m \in Messages : TRUE
                        /\ ~includeDumps /\ archive.state = "absent"

Services == part = "services" /\ UNCHANGED <<part, deviceVars, changeVars, bundleVars>>
Devices  == part = "devices"  /\ UNCHANGED <<part, serviceVars, changeVars, bundleVars>>
Changes  == part = "changes"  /\ UNCHANGED <<part, serviceVars, deviceVars, bundleVars>>
Archive  == part = "bundle"   /\ UNCHANGED <<part, serviceVars, deviceVars, changeVars>>

(* A step of the program, and one of the system it looks at.               *)
Step == \/ Services /\ CollectServices
        \/ Devices /\ CollectDevices
        \/ Changes /\ CollectChanges
        \/ Archive /\ BuildBundle

SystemMoves == \/ Services /\ (ServiceMoves \/ ServiceDeleted \/ ServiceCreated)
               \/ Devices /\ DeviceMoves
               \/ Changes /\ SoftwareMoves
               \/ Archive /\ DumpDeleted

(* What each part waits for at its end.                                    *)
Ended == CASE part = "services" -> asking = "done"
           [] part = "devices" -> treeOpen = "done"
           [] part = "changes" -> tracking = "done"
           [] part = "bundle" -> building \in {"written", "failed"}

Rest == Ended /\ UNCHANGED partVars

Next == Step \/ SystemMoves \/ Rest

Spec == Init /\ [][Next]_partVars

(* A part is one thread that is scheduled while it is not at its end; the  *)
(* system need not change anything.                                        *)
FairSpec == Spec /\ WF_partVars(Step)

-----------------------------------------------------------------------------
(* Every collector answers and every bundle is written or fails, whatever  *)
(* pages a manager hands out and whatever vanishes under the reader: the   *)
(* loop of service_inspector.rs 46-97 is left when a call returns nothing. *)
PartsEnd == <>Ended
=============================================================================
