------------------------------ MODULE MCParts -------------------------------
EXTENDS Parts

(* A running service with a stale code, one that failed, and one with a    *)
(* benign code and a failure of its own.                                   *)
Running == [state |-> "running", exit |-> 1067, specific |-> 0]
Stopped == [state |-> "stopped", exit |-> 0, specific |-> 0]
Crashed == [state |-> "stopped", exit |-> 1067, specific |-> 0]
OwnCode == [state |-> "stopped", exit |-> 0, specific |-> 5]

MCServiceStates == {Running, Stopped, Crashed, OwnCode}
MCFirstServices == 1 :> Crashed @@ 2 :> Running @@ 4 :> OwnCode

MCFirstProblems == "usb" :> 43 @@ "gpu" :> 10 @@ "disk" :> 0
MCTitle == "usb" :> 5 @@ "gpu" :> 2 @@ "disk" :> 3
MCDeviceList == <<"usb", "gpu", "disk">>

(* One program on two days, the same program in both views of the          *)
(* registry, another of the same day, a part of a product, and a driver.   *)
MCFact ==
  "app"     :> [name |-> "app", date |-> 70, component |-> FALSE, file |-> "none"] @@
  "app32"   :> [name |-> "app", date |-> 70, component |-> FALSE, file |-> "none"] @@
  "earlier" :> [name |-> "app", date |-> 68, component |-> FALSE, file |-> "none"] @@
  "other"   :> [name |-> "other", date |-> 70, component |-> FALSE, file |-> "none"] @@
  "piece"   :> [name |-> "piece", date |-> 70, component |-> TRUE, file |-> "none"] @@
  "inf"     :> [name |-> "driver", date |-> 69, component |-> FALSE, file |-> "oem1"]
MCEntries == DOMAIN MCFact
MCKeys == <<<<"app", "piece", "other">>, <<"app32">>, <<"earlier">>, <<"inf">>>>
MCAtFirst == MCEntries \ {"app32"}
MCHotfixes == <<[name |-> "KB1", month |-> 3, day |-> 8], [name |-> "KB2", month |-> 3, day |-> 20]>>

MCWords == {Word("home", "exact"), Word("home", "lower"), Word("user", "exact"),
            Word("user", "lower"), Word("user", "mixed"), Word("host", "exact")}
(* All of two words, and a path that is followed by a name.                *)
MCMessages == {<<a, b>> : a, b \in MCWords}
  \cup {<<a, b, c>> : a \in {x \in MCWords : x.word = "home"}, b \in {x \in MCWords : x.word = "user"},
                     c \in {Word("user", "exact"), Word("host", "exact")}}
MCNameLength == "user" :> 5 @@ "host" :> 15 @@ "profile" :> 14

(* One that is too large, a crash without one, and two of one name.        *)
MCCrashDumps == <<"kernel", "none", "memory", "app", "copy">>
MCFileName == "kernel" :> "dumps/kernel.dmp" @@ "memory" :> "dumps/memory.dmp" @@
              "app" :> "dumps/app.dmp" @@ "copy" :> "dumps/app.dmp"
=============================================================================
