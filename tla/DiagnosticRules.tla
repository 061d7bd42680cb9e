---------------------------- MODULE DiagnosticRules ------------------------
(* The heuristic rules of src/src/modules/analysis/rules.rs: what each     *)
(* rule finds in a finished collection.                                    *)
(*                                                                         *)
(* A report is a record of what the providers collected.  Its texts are    *)
(* abstracted to what the rules tell apart: an event is of one kind (the   *)
(* sources and identifiers a rule asks for), a stop code is one of a few   *)
(* names, and names that differ in letter case only are one name.  The     *)
(* code of an application's crash is its exception code, any number; its   *)
(* module is the process the crash is counted for.                         *)
(*   timeline : sequence of [kind, about, at, error]                       *)
(*   crashes  : sequence of [source, at, code, established, module]        *)
(*   drivers  : sequence of [name, os, contends, unsigned, listed]         *)
(*   faults, failures : devices with a fault code, corroborated services   *)
(*   changes  : the times of recorded system changes                       *)
(*   weak     : a kernel mitigation is known to be off                     *)
(*   firmware : "unknown", "recent" or "old" (two years)                   *)
(*   since, until : the scan window                                        *)
EXTENDS Integers, Sequences, FiniteSets

CONSTANTS
  Day,          \* ticks of the clock in a day
  Minute,       \* ticks of the clock in a minute
  TrendPerDay,  \* 20 in the code: errors a day that make a trend
  ChurnEvents,  \* 10 in the code: device events that make churn
  ChurnPerDay,  \* 4 in the code: device events a day that make churn
  None          \* no time, no name

WindowMinutes == 5

Least(a, b) == IF a <= b THEN a ELSE b
Most(a, b) == IF a >= b THEN a ELSE b
Newest(times) == IF times = {} THEN None ELSE CHOOSE t \in times : \A u \in times : u <= t
Abs(n) == IF n < 0 THEN -n ELSE n

(* num_minutes() cuts the seconds off before it is compared.               *)
Near(t, u) == Abs(t - u) \div Minute <= WindowMinutes

DaysOf(r) == Most((r.until - r.since) \div Day, 1)

Events(r, kinds) == {i \in DOMAIN r.timeline : r.timeline[i].kind \in kinds}
EventTimes(r, is) == {r.timeline[i].at : i \in is}
Dumps(r, source) == {i \in DOMAIN r.crashes : r.crashes[i].source = source}
CrashTimes(r, is) == {r.crashes[i].at : i \in is}

(***************************************************************************)
(* Findings.                                                               *)
(***************************************************************************)
Finding(rule, cause, about, weight, seen) ==
  [rule |-> rule, cause |-> cause, about |-> about, place |-> 0, weight |-> weight, seen |-> seen]

(* The root cause is the key under which findings are combined.            *)
Root(name) == <<name, None>>
DriverFault(module) == <<"driver-fault", module>>
ApplicationFault(process) == <<"application-fault", process>>

Whea(r) ==
  LET events == Events(r, {"corrected", "uncorrected"})
      fatal == Events(r, {"uncorrected"})
  IN IF events = {} THEN {}
     ELSE {Finding("Whea", Root("hardware-error"), None,
                   IF fatal # {} THEN 92 ELSE 55, Newest(EventTimes(r, events)))}

DiskError(r) ==
  LET of(device) == {i \in Events(r, {"disk"}) : r.timeline[i].about = device}
  IN {Finding("DiskError", Root("storage-failure"), device,
              Least(60 + 6 * Cardinality(of(device)), 95), Newest(EventTimes(r, of(device)))) :
        device \in {r.timeline[i].about : i \in Events(r, {"disk"})}}

(* The stop codes each root cause stands for, one or two of each.          *)
RootCauseFor(code) ==
  CASE code \in {"0x124", "0x9C"} -> Root("hardware-error")
    [] code = "0x1A" -> Root("memory-error")
    [] code = "0xF4" -> Root("storage-failure")
    [] code = "0x116" -> Root("graphics-timeout")
    [] OTHER -> Root("instability-trend")

BugCheck(r) ==
  LET dumps == {i \in Dumps(r, "kernel") : r.crashes[i].code # None}
      of(code) == {i \in dumps : r.crashes[i].code = code}
  IN {Finding("BugCheck", RootCauseFor(code), code,
              Least(72 + 6 * Cardinality(of(code)), 94), Newest(CrashTimes(r, of(code)))) :
        code \in {r.crashes[i].code : i \in dumps}}

Attributed(r) == {i \in Dumps(r, "kernel") : r.crashes[i].established}

CrashAttribution(r) ==
  LET of(module) == {i \in Attributed(r) : r.crashes[i].module = module}
  IN {Finding("CrashAttribution", DriverFault(module), module,
              IF Cardinality(of(module)) > 1 THEN 93 ELSE 82, Newest(CrashTimes(r, of(module)))) :
        module \in {r.crashes[i].module : i \in Attributed(r)}}

(* Mutant: any dump explains a reset.                                      *)
Unexplained_AnyDump(r) ==
  {i \in Events(r, {"shutdown"}) :
     \A c \in DOMAIN r.crashes : ~Near(r.crashes[c].at, r.timeline[i].at)}

(* A reset with a kernel dump near it is a stop the dump explains.         *)
Unexplained(r) ==
  {i \in Events(r, {"shutdown"}) :
     \A c \in Dumps(r, "kernel") : ~Near(r.crashes[c].at, r.timeline[i].at)}

PowerLoss(r) ==
  IF Unexplained(r) = {} THEN {}
  ELSE {Finding("PowerLoss", Root("power-loss"), None,
                Least(48 + 9 * Cardinality(Unexplained(r)), 88),
                Newest(EventTimes(r, Unexplained(r))))}

ApplicationCrash(r) ==
  LET of(process) == {i \in Dumps(r, "user") : r.crashes[i].module = process}
  IN {Finding("ApplicationCrash", ApplicationFault(process), process,
              Least(22 + 6 * Cardinality(of(process)), 55), Newest(CrashTimes(r, of(process)))) :
        process \in {p \in {r.crashes[i].module : i \in Dumps(r, "user")} :
                       Cardinality(of(p)) > 1}}

Vulnerable(r) == {i \in DOMAIN r.drivers : r.drivers[i].listed # "no"}

(* One finding for each entry of the inventory, and in its order.          *)
VulnerableDriver(r) ==
  {[Finding("VulnerableDriver", Root("vulnerable-driver"), r.drivers[i].name,
            IF r.drivers[i].listed = "hash" THEN 90 ELSE 68, None) EXCEPT !.place = i] :
     i \in Vulnerable(r)}

UnsignedDriver(r) ==
  IF \A i \in DOMAIN r.drivers : ~r.drivers[i].unsigned THEN {}
  ELSE {Finding("UnsignedDriver", Root("unsigned-driver"), None, 45, None)}

Contending(r) == {i \in DOMAIN r.drivers : ~r.drivers[i].os /\ r.drivers[i].contends}

SensorContention(r) ==
  IF Cardinality(Contending(r)) < 2 THEN {}
  ELSE {Finding("SensorContention", Root("sensor-contention"), None,
                Least(40 + 12 * Cardinality(Contending(r)), 78), None)}

DeviceProblem(r) ==
  IF r.faults = 0 THEN {}
  ELSE {Finding("DeviceProblem", Root("device-instability"), None, Least(50 + 10 * r.faults, 85), None)}

Churn(r) == Events(r, {"device"})

DeviceReEnumeration(r) ==
  LET n == Cardinality(Churn(r))
  IN IF n < ChurnEvents \/ n < ChurnPerDay * DaysOf(r) THEN {}
     ELSE {Finding("DeviceReEnumeration", Root("device-instability"), None,
                   Least(45 + (2 * n) \div DaysOf(r), 80), Newest(EventTimes(r, Churn(r))))}

ServiceFailure(r) ==
  IF r.failures = 0 THEN {}
  ELSE {Finding("ServiceFailure", Root("service-failure"), None, Least(35 + 8 * r.failures, 70), None)}

Errors(r) == {i \in DOMAIN r.timeline : r.timeline[i].error}

ReliabilityTrend(r) ==
  LET n == Cardinality(Errors(r))
  IN IF n < TrendPerDay * DaysOf(r) THEN {}
     ELSE {Finding("ReliabilityTrend", Root("instability-trend"), None,
                   Least(30 + Least(n \div DaysOf(r), 60), 72), Newest(EventTimes(r, Errors(r))))}

(* A changepoint with no change near it is a date, not a lead.             *)
Changepoint(onset) ==
  IF onset = None \/ onset.suspects = {} THEN {}
  ELSE {Finding("Changepoint", Root("recent-regression"), None,
                IF onset.before = 0 THEN 84 ELSE 62, onset.at)}

SecurityPosture(r) ==
  IF ~r.weak \/ Vulnerable(r) = {} THEN {}
  ELSE {Finding("SecurityPosture", Root("vulnerable-driver"), None, 60, None)}

(* The code of any crash is asked for, an application's as well.           *)
HardwareCodes == {"0x124", "0x9C", "0x101", "0x1A"}
HardwareTrouble(r) ==
  \/ Events(r, {"corrected", "uncorrected"}) # {}
  \/ \E i \in DOMAIN r.crashes : r.crashes[i].code \in HardwareCodes

(* Mutant: old firmware is a finding on any machine.                       *)
FirmwareAge_Alone(r) ==
  IF r.firmware # "old" THEN {}
  ELSE {Finding("FirmwareAge", Root("hardware-error"), None, 40, None)}

FirmwareAge(r) ==
  IF r.firmware # "old" \/ ~HardwareTrouble(r) THEN {}
  ELSE {Finding("FirmwareAge", Root("hardware-error"), None, 40, None)}

(***************************************************************************)
(* All rules, in the order in which they are registered.                   *)
(***************************************************************************)
AllRules ==
  <<"Whea", "DiskError", "BugCheck", "CrashAttribution", "PowerLoss", "ApplicationCrash",
    "VulnerableDriver", "UnsignedDriver", "SensorContention", "DeviceProblem",
    "DeviceReEnumeration", "ServiceFailure", "ReliabilityTrend", "Changepoint",
    "SecurityPosture", "FirmwareAge">>

Evaluate(rule, r, onset) ==
  CASE rule = "Whea" -> Whea(r)
    [] rule = "DiskError" -> DiskError(r)
    [] rule = "BugCheck" -> BugCheck(r)
    [] rule = "CrashAttribution" -> CrashAttribution(r)
    [] rule = "PowerLoss" -> PowerLoss(r)
    [] rule = "ApplicationCrash" -> ApplicationCrash(r)
    [] rule = "VulnerableDriver" -> VulnerableDriver(r)
    [] rule = "UnsignedDriver" -> UnsignedDriver(r)
    [] rule = "SensorContention" -> SensorContention(r)
    [] rule = "DeviceProblem" -> DeviceProblem(r)
    [] rule = "DeviceReEnumeration" -> DeviceReEnumeration(r)
    [] rule = "ServiceFailure" -> ServiceFailure(r)
    [] rule = "ReliabilityTrend" -> ReliabilityTrend(r)
    [] rule = "Changepoint" -> Changepoint(onset)
    [] rule = "SecurityPosture" -> SecurityPosture(r)
    [] rule = "FirmwareAge" -> FirmwareAge(r)
=============================================================================
