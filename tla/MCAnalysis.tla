----------------------------- MODULE MCAnalysis ----------------------------
(* Instances of Analysis.  A minute has two ticks and a day forty, so that *)
(* five minutes, five and a half and six differ and a day is longer than   *)
(* the reach of a window.                                                  *)
EXTENDS Analysis

CONSTANTS drv, mon, app, dev1, dev2

Event(kind, about, at, error) == [kind |-> kind, about |-> about, at |-> at, error |-> error]
Crash(source, at, code, established, module) ==
  [source |-> source, at |-> at, code |-> code, established |-> established, module |-> module]
Driver(name, os, contends, unsigned, listed) ==
  [name |-> name, os |-> os, contends |-> contends, unsigned |-> unsigned, listed |-> listed]

(* The timeline is in the order of time; no two of these events share one. *)
InTime(events) == InOrder(events, LAMBDA d, e : d.at < e.at)
Sorted(crashes) == InOrder(crashes, LAMBDA c, d : c.at > d.at)

Quiet ==
  [timeline |-> <<>>, crashes |-> <<>>, drivers |-> <<>>, faults |-> 0, failures |-> 0,
   changes |-> {}, weak |-> FALSE, firmware |-> "recent", since |-> 0, until |-> 200]

(* Crashes in time: up to three markers and two dumps, near each other, in *)
(* a chain or days apart, and a change beside the first or the last.       *)
Moments == {0, 11, 22, 80, 160}
MCMarkers ==
  {s \in SUBSET {Event(k, None, t, TRUE) : k \in {"bugcheck", "shutdown"}, t \in Moments} :
     Cardinality(s) <= 3 /\ \A d, e \in s : d.at = e.at => d = e}
MCDumps ==
  {{}, {Crash("kernel", 10, "0xD1", TRUE, drv)}, {Crash("kernel", 92, None, FALSE, None)},
   {Crash("kernel", 4, "0x124", FALSE, None), Crash("kernel", 14, "0xD1", TRUE, drv)},
   {Crash("user", 0, "exception", TRUE, app), Crash("user", 80, "exception", TRUE, app)}}
CrashReports ==
  {[Quiet EXCEPT !.timeline = InTime(m), !.crashes = Sorted(d), !.changes = c] :
     m \in MCMarkers, d \in MCDumps, c \in {{}, {21}, {0, 199}}}

(* Everything else a rule reads, within one day.                           *)
MCBackground ==
  SUBSET {Event("corrected", None, 3, FALSE), Event("uncorrected", None, 38, TRUE),
          Event("disk", dev1, 5, TRUE), Event("disk", dev2, 36, TRUE),
          Event("device", None, 7, FALSE), Event("other", None, 9, TRUE)}
MCCrashes ==
  {{}, {Crash("kernel", 20, "0x124", FALSE, None), Crash("kernel", 30, "0x1A", TRUE, drv)},
   {Crash("kernel", 10, "0xF4", TRUE, drv), Crash("kernel", 25, "0x116", TRUE, drv)},
   {Crash("user", 8, "exception", TRUE, app)}, {Crash("user", 8, "0x101", TRUE, app)},
   {Crash("user", 8, "exception", TRUE, app), Crash("user", 31, "exception", TRUE, app)}}
Watched == Driver(mon, FALSE, TRUE, FALSE, "no")
Abused == Driver(mon, FALSE, TRUE, FALSE, "hash")
Suspected == Driver(drv, FALSE, TRUE, TRUE, "name")
(* Drivers, faulty devices, failed services, weak protections, firmware.   *)
MCMachines ==
  {<<<<>>, 0, 0, FALSE, "unknown">>, <<<<Watched>>, 0, 0, TRUE, "old">>,
   <<<<Abused, Suspected>>, 0, 0, FALSE, "old">>, <<<<Suspected, Abused>>, 1, 1, TRUE, "recent">>}
RuleReports ==
  {[Quiet EXCEPT !.timeline = InTime(b), !.crashes = Sorted(c), !.changes = {15}, !.until = 40,
                 !.drivers = m[1], !.faults = m[2], !.failures = m[3],
                 !.weak = m[4], !.firmware = m[5]] :
     b \in MCBackground, c \in MCCrashes, m \in MCMachines}

MCReports == CrashReports \cup RuleReports
=============================================================================
