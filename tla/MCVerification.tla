--------------------------- MODULE MCVerification ---------------------------
(* Verification with the kernel and two other drivers, one of them flagged. *)
(* Images are neighbours without a gap, and the second boot places them     *)
(* elsewhere, so that an address of one driver is another's by then.  The   *)
(* first boot may be one of a 32-bit Windows.                               *)
EXTENDS Verification, TLC

CONSTANTS nt, net, fan

MCOrder == (nt :> 1) @@ (fan :> 2) @@ (net :> 3)
MCSize == (nt :> 1) @@ (net :> 2) @@ (fan :> 1)
First == (nt :> 10) @@ (net :> 11) @@ (fan :> 13)
Second == (nt :> 12) @@ (net :> 10) @@ (fan :> 13)
Narrow == (nt :> 2) @@ (net :> 3) @@ (fan :> 5)
MCPlacement == <<{First, Narrow}, {Second}>>
=============================================================================
