---------------------------- MODULE MCScanEngine ---------------------------
(* Instances of ScanEngine.                                                *)
(*                                                                         *)
(* Records: 1 and 2 are failures of services a and b in one second; 3 and  *)
(* 4 are one crash, reported by two sources; 5 is a failure of service     *)
(* "sensor", whose name contains that of service "sens".                   *)
EXTENDS ScanEngine, TLC

CONSTANTS a, b, sens, sensor, none

(* One collector has more than one answer.                                 *)
MCAnswers ==
  [p \in Providers |->
     IF p = "Drivers" THEN {<<"complete", 3>>, <<"partial", 3>>}
     ELSE IF p \in Single THEN {<<"complete", 1>>}
     ELSE {<<"complete", 2>>}]

MCTime == <<1, 1, 2, 2, 3>>
MCKey == <<1, 1, 3, 3, 5>>
MCAbout == <<a, b, none, none, sensor>>
MCMentions == <<{a}, {b}, {}, {}, {sens, sensor}>>

MCCap == <<2, 1>>
MCLogs == {<<{1, 2, 3}, {}, {1, 4}>>, <<{1, 5}, {3, 4}, {}>>}
MCServices == {<<a, b>>, <<a, sens>>}
=============================================================================
