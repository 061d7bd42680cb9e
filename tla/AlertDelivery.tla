--------------------------- MODULE AlertDelivery ---------------------------
(***************************************************************************)
(* What the live monitor promises about alerts, without threads, queues,   *)
(* windows or outputs: every detection is announced once, in the order it  *)
(* was detected, and announcing empties the backlog in one go - for as     *)
(* long as there is a console to announce on.                              *)
(* Monitor.tla is shown to implement this (DeliversAlerts).                *)
(***************************************************************************)
EXTENDS Sequences

CONSTANT Detection   \* the set of things the monitor can detect

VARIABLES
  detected,          \* everything detected so far, oldest first
  announced,         \* everything announced so far, oldest first
  broken             \* has announcing broken down?

vars == <<detected, announced, broken>>

Init ==
  /\ detected = <<>>
  /\ announced = <<>>
  /\ broken = FALSE

Detect ==
  /\ ~broken
  /\ \E d \in Detection : detected' = Append(detected, d)
  /\ UNCHANGED <<announced, broken>>

Announce ==
  /\ ~broken /\ announced # detected
  /\ announced' = detected
  /\ UNCHANGED <<detected, broken>>

(* It breaks down on something there is to announce, not out of the blue.  *)
Break ==
  /\ ~broken /\ announced # detected
  /\ broken' = TRUE
  /\ UNCHANGED <<detected, announced>>

Next == Detect \/ Announce \/ Break

(* Detections come and go at the machine's will; announcing is the         *)
(* monitor's duty.                                                         *)
SafeSpec == Init /\ [][Next]_vars
Spec == SafeSpec /\ WF_vars(Announce)
=============================================================================
