------------------------- MODULE MCDriverInventory -------------------------
(* Instances of DriverInventory.  Two of the three images share a file     *)
(* name, as a driver and its updated copy do.                              *)
EXTENDS DriverInventory, TLC

CONSTANTS afd, oem1, oem2

MCPaths == {afd, oem1, oem2}
MCName == afd :> 1 @@ oem1 :> 2 @@ oem2 :> 2
MCAddress == afd :> 100 @@ oem1 :> 200 @@ oem2 :> 300
=============================================================================
