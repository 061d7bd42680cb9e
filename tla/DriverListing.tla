--------------------------- MODULE DriverListing ---------------------------
(***************************************************************************)
(* What the driver inventory promises whoever asks for the drivers: the    *)
(* images found are fixed first, then either all of them are reported,     *)
(* each exactly once and in order of name, or the whole listing is lost.   *)
(* How many threads do the work does not show.                             *)
(***************************************************************************)
EXTENDS Integers, Sequences

CONSTANTS
  Name       \* image path |-> its file name in lower case, as a number

VARIABLES
  stage,     \* "finding", "found", "listed", "lost"
  found,     \* the images found, as records with a path
  listed     \* the report: positions in found

(* order is an arrangement of the positions 1 .. n by name.                *)
IsArrangement(order, images) ==
  LET n == Len(images)
  IN  /\ order \in Seq(1 .. n)
      /\ Len(order) = n
      /\ \A i \in 1 .. n : \E k \in 1 .. n : order[k] = i
      /\ \A k, l \in 1 .. n : order[k] = order[l] => k = l
      /\ \A k, l \in 1 .. n :
           k < l => Name[images[order[k]].path] <= Name[images[order[l]].path]

Init == stage = "finding" /\ found = <<>> /\ listed = <<>>

Find ==
  /\ stage = "finding"
  /\ UNCHANGED listed
  /\ \/ stage' = "finding"
     \/ stage' = "found"

List ==
  /\ stage = "found"
  /\ stage' = "listed"
  /\ UNCHANGED found
  /\ IsArrangement(listed', found)

Lose ==
  /\ stage = "found"
  /\ stage' = "lost"
  /\ UNCHANGED <<found, listed>>

Next == Find \/ List \/ Lose

Spec == Init /\ [][Next]_<<stage, found, listed>>
=============================================================================
