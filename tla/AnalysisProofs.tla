---------------------------- MODULE AnalysisProofs -------------------------
(* Proofs about Analysis, for every set of well-formed reports and every   *)
(* length of a minute and a day: the windows are the crashes, a healthy    *)
(* machine has no finding, the verdict on resets agrees with the windows,  *)
(* the changepoint is where the crash rate rose most, and more evidence    *)
(* never lowers a score.                                                   *)
EXTENDS Analysis, FiniteSetTheorems, FunctionTheorems, SequenceTheorems, WellFoundedInduction, TLAPS

(* A set of naturals that is not empty has a least element, and Min is it. *)
LEMMA MinIsLeast ==
  ASSUME NEW S \in SUBSET Nat, S # {}
  PROVE  Min(S) \in S /\ \A i \in S : Min(S) <= i
<1>1. PICK m \in S : \A i \in S : <<i, m>> \notin OpToRel(<, Nat)
  BY WFMin, NatLessThanWellFounded, Zenon
<1>2. \A i \in S : m <= i
  <2> SUFFICES ASSUME NEW i \in S PROVE m <= i
    OBVIOUS
  <2>1. m \in Nat /\ i \in Nat
    BY <1>1
  <2>2. ~(i < m)
    BY <1>1, <2>1, Zenon DEF OpToRel
  <2>3. QED
    BY <2>1, <2>2
<1>3. QED
  BY <1>1, <1>2 DEF Min

(* What the assumption on the reports says of the times they hold.         *)
LEMMA ReportTimes ==
  ASSUME NEW r \in Reports
  PROVE  /\ DOMAIN r.timeline = 1 .. Len(r.timeline)
         /\ Len(r.timeline) \in Nat
         /\ \A i \in DOMAIN r.timeline : r.timeline[i].at \in Int
         /\ \A i \in DOMAIN r.crashes : r.crashes[i].at \in Int
         /\ \A i \in DOMAIN r.crashes : r.crashes[i].source \in {"kernel", "user"}
<1>1. r.timeline \in Seq(ToSet(r.timeline))
  BY ReportsAreCollections
<1>2. DOMAIN r.timeline = 1 .. Len(r.timeline) /\ Len(r.timeline) \in Nat
  BY <1>1
<1>3. /\ \A e \in ToSet(r.timeline) : e.at \in Int
      /\ \A c \in ToSet(r.crashes) : c.at \in Int /\ c.source \in {"kernel", "user"}
  BY ReportsAreCollections
<1>4. /\ \A i \in DOMAIN r.timeline : r.timeline[i] \in ToSet(r.timeline)
      /\ \A i \in DOMAIN r.crashes : r.crashes[i] \in ToSet(r.crashes)
  BY DEF ToSet
<1>5. QED
  BY <1>2, <1>3, <1>4

(***************************************************************************)
(* Type correctness.                                                       *)
(***************************************************************************)
LEMMA InitTypeOK == Init => TypeOK
<1>1. SUFFICES ASSUME Init PROVE TypeOK
  OBVIOUS
<1>2. Len(report.timeline) \in Nat
  BY <1>1, ReportTimes DEF Init
<1>3. Len(AllRules) = 16
  BY DEF AllRules
<1>4. QED
  BY <1>1, <1>2, <1>3 DEF Init, TypeOK, Phases

LEMMA NextTypeOK == TypeOK /\ [Next]_vars => TypeOK'
<1>1. SUFFICES ASSUME TypeOK, [Next]_vars PROVE TypeOK'
  OBVIOUS
<1>2. /\ report \in Reports
      /\ DOMAIN report.timeline = 1 .. Len(report.timeline)
      /\ Len(report.timeline) \in Nat
  BY <1>1, ReportTimes DEF TypeOK
<1>3. Len(AllRules) = 16
  BY DEF AllRules
<1>4. CASE CorrelateDumps
  BY <1>1, <1>2, <1>4 DEF CorrelateDumps, TypeOK, Phases, Window, SystemCrashes
<1>5. CASE CorrelateEvent
  <2>1. marker' \in 1 .. Len(report.timeline) /\ marker \in Nat /\ marker' = marker + 1
    BY <1>1, <1>2, <1>5 DEF CorrelateEvent, TypeOK
  <2>2. \A i \in 1 .. marker : i \in 1 .. marker'
    BY <2>1
  <2>3. ASSUME NEW w \in windows'
        PROVE  \/ w.from = "dump" /\ w.item \in SystemCrashes /\ w.at = report.crashes[w.item].at
               \/ /\ w.from \in {"bugcheck", "shutdown"} /\ w.item \in 1 .. marker'
                  /\ w.at = report.timeline[w.item].at /\ w.from = report.timeline[w.item].kind
    <3>1. CASE w \in windows
      BY <1>1, <2>2, <3>1 DEF TypeOK
    <3>2. CASE w \notin windows
      <4>1. /\ IsCrashMarker(report.timeline[marker'])
            /\ w = Window(report.timeline[marker'].at, report.timeline[marker'].kind, marker')
        BY <1>5, <3>2 DEF CorrelateEvent
      <4>2. marker' \in 1 .. marker'
        BY <2>1
      <4>3. QED
        BY <4>1, <4>2 DEF Window, IsCrashMarker
    <3>3. QED
      BY <3>1, <3>2
  <2>4. SystemCrashes' = SystemCrashes /\ report' = report
    BY <1>5 DEF CorrelateEvent, SystemCrashes
  <2>5. marker' \in 0 .. Len(report.timeline)
    BY <2>1, <1>2
  <2>6. QED
    BY <1>1, <1>5, <2>3, <2>4, <2>5 DEF CorrelateEvent, TypeOK
<1>6. CASE Correlated
  BY <1>1, <1>6 DEF Correlated, TypeOK, Phases, SystemCrashes
<1>7. CASE FindOnset
  BY <1>1, <1>7 DEF FindOnset, TypeOK, Phases, SystemCrashes
<1>8. CASE EvaluateRule
  <2>1. evaluated' \in 1 .. 16
    <3>1. evaluated \in 0 .. 16
      BY <1>1, <1>3 DEF TypeOK
    <3>2. evaluated < 16 /\ evaluated' = evaluated + 1
      BY <1>3, <1>8 DEF EvaluateRule
    <3>3. QED
      BY <3>1, <3>2
  <2>2. QED
    BY <1>1, <1>3, <1>8, <2>1 DEF EvaluateRule, TypeOK, SystemCrashes
<1>9. CASE CombineFindings
  <2>1. evaluated = 16 /\ evaluated' = 16
    BY <1>3, <1>9 DEF CombineFindings
  <2>2. QED
    BY <1>1, <1>9, <2>1 DEF CombineFindings, TypeOK, Phases, SystemCrashes
<1>10. CASE Finished \/ UNCHANGED vars
  BY <1>1, <1>10 DEF Finished, vars, TypeOK, SystemCrashes
<1>11. QED
  BY <1>1, <1>4, <1>5, <1>6, <1>7, <1>8, <1>9, <1>10 DEF Next

(* The analysis keeps its types; a window is that of a kernel dump or of a *)
(* crash marker already correlated.                                        *)
THEOREM TypeCorrect == Spec => []TypeOK
BY InitTypeOK, NextTypeOK, PTL DEF Spec

(***************************************************************************)
(* Correlation.                                                            *)
(***************************************************************************)
LEMMA NearIsSymmetric == \A t, u \in Int : Near(t, u) <=> Near(u, t)
<1>1. SUFFICES ASSUME NEW t \in Int, NEW u \in Int PROVE Abs(t - u) = Abs(u - t)
  BY DEF Near
<1>2. QED
  BY DEF Abs

LEMMA NearIsReflexive == \A t \in Int : Near(t, t)
<1>1. SUFFICES ASSUME NEW t \in Int PROVE Near(t, t)
  OBVIOUS
<1>2. Abs(t - t) = 0
  BY DEF Abs
<1>3. 0 \div Minute = 0
  BY ReportsAreCollections
<1>4. QED
  BY <1>2, <1>3 DEF Near, WindowMinutes

LEMMA WindowTimes == TypeOK => \A w \in windows : w.at \in Int
<1>1. SUFFICES ASSUME TypeOK, NEW w \in windows PROVE w.at \in Int
  OBVIOUS
<1>2. /\ marker \in 0 .. Len(report.timeline)
      /\ DOMAIN report.timeline = 1 .. Len(report.timeline)
      /\ Len(report.timeline) \in Nat
      /\ \A i \in DOMAIN report.timeline : report.timeline[i].at \in Int
      /\ \A i \in DOMAIN report.crashes : report.crashes[i].at \in Int
  BY <1>1, ReportTimes DEF TypeOK
<1>3. \A i \in 1 .. marker : i \in DOMAIN report.timeline
  BY <1>2
<1>4. QED
  BY <1>1, <1>2, <1>3 DEF TypeOK, SystemCrashes, Dumps

(* What correlation has done so far.                                       *)
Correlation ==
  /\ phase = "dumps" => windows = {} /\ marker = 0
  /\ phase # "dumps" =>
       /\ \A i \in SystemCrashes : Window(report.crashes[i].at, "dump", i) \in windows
       /\ \A i \in 1 .. marker :
            IsCrashMarker(report.timeline[i]) =>
              \E w \in windows : Near(w.at, report.timeline[i].at)
  /\ phase \notin {"dumps", "markers"} => marker = Len(report.timeline)

CorrelationInv == TypeOK /\ OneWindowPerCrash /\ Correlation

LEMMA InitCorrelation == Init => CorrelationInv
BY InitTypeOK DEF Init, CorrelationInv, OneWindowPerCrash, Correlation

LEMMA NextCorrelation == CorrelationInv /\ [Next]_vars => CorrelationInv'
<1>1. SUFFICES ASSUME CorrelationInv, [Next]_vars PROVE CorrelationInv'
  OBVIOUS
<1>2. TypeOK /\ TypeOK'
  BY <1>1, NextTypeOK DEF CorrelationInv
<1>3. /\ report \in Reports
      /\ DOMAIN report.timeline = 1 .. Len(report.timeline)
      /\ Len(report.timeline) \in Nat
      /\ \A i \in DOMAIN report.timeline : report.timeline[i].at \in Int
  BY <1>2, ReportTimes DEF TypeOK
<1>4. CASE CorrelateDumps
  <2>1. /\ windows' = {Window(report.crashes[i].at, "dump", i) : i \in SystemCrashes}
        /\ report' = report /\ marker' = marker /\ phase' = "markers"
        /\ marker = 0
    BY <1>1, <1>4 DEF CorrelateDumps, CorrelationInv, Correlation
  <2>2. \A w \in windows' : w.from = "dump"
    BY <2>1 DEF Window
  <2>3. OneWindowPerCrash'
    BY <2>2 DEF OneWindowPerCrash
  <2>4. Correlation'
    BY <2>1 DEF Correlation, SystemCrashes
  <2>5. QED
    BY <1>2, <2>3, <2>4 DEF CorrelationInv
<1>5. CASE CorrelateEvent
  <2> DEFINE e == report.timeline[marker']
  <2>1. /\ marker \in Nat /\ marker' = marker + 1 /\ marker' \in DOMAIN report.timeline
        /\ report' = report /\ phase' = phase /\ phase = "markers"
        /\ windows' = IF IsCrashMarker(e) /\ ~Covered(e)
                      THEN windows \cup {Window(e.at, e.kind, marker')} ELSE windows
    BY <1>2, <1>3, <1>5 DEF CorrelateEvent, TypeOK
  <2>2. e.at \in Int
    BY <1>3, <2>1
  <2>3. Window(e.at, e.kind, marker').at = e.at
    BY DEF Window
  <2>4. \A w \in windows : w.at \in Int
    BY <1>2, WindowTimes
  <2> HIDE DEF e
  <2>5. OneWindowPerCrash'
    <3>1. SUFFICES ASSUME NEW v \in windows', NEW w \in windows', Near(v.at, w.at), v # w
                   PROVE  v.from = "dump" /\ w.from = "dump"
      BY DEF OneWindowPerCrash
    <3>2. CASE v \in windows /\ w \in windows
      BY <1>1, <3>1, <3>2 DEF CorrelationInv, OneWindowPerCrash
    <3>3. CASE v \notin windows \/ w \notin windows
      <4>1. ~Covered(e)
        BY <2>1, <3>1, <3>3
      <4>2. \/ v \in windows /\ w.at = e.at
            \/ w \in windows /\ v.at = e.at
        BY <2>1, <2>3, <3>1, <3>3
      <4>3. \E x \in windows : Near(x.at, e.at)
        BY <2>2, <2>4, <3>1, <4>2, NearIsSymmetric
      <4>4. QED
        BY <4>1, <4>3 DEF Covered
    <3>4. QED
      BY <3>2, <3>3
  <2>6. Correlation'
    <3>1. windows \subseteq windows'
      BY <2>1
    <3>2. \A i \in SystemCrashes' : Window(report'.crashes[i].at, "dump", i) \in windows'
      BY <1>1, <2>1, <3>1 DEF CorrelationInv, Correlation, SystemCrashes
    <3>3. ASSUME NEW i \in 1 .. marker', IsCrashMarker(report.timeline[i])
          PROVE  \E w \in windows' : Near(w.at, report.timeline[i].at)
      <4>1. CASE i \in 1 .. marker
        BY <1>1, <2>1, <3>1, <3>3, <4>1 DEF CorrelationInv, Correlation
      <4>2. CASE i = marker'
        <5>1. e = report.timeline[i]
          BY <4>2 DEF e
        <5>2. CASE Covered(e)
          BY <3>1, <5>1, <5>2 DEF Covered
        <5>3. CASE ~Covered(e)
          <6>1. Window(e.at, e.kind, marker') \in windows'
            BY <2>1, <3>3, <5>1, <5>3
          <6>2. Near(e.at, e.at)
            BY <2>2, NearIsReflexive
          <6>3. QED
            BY <2>3, <5>1, <6>1, <6>2
        <5>4. QED
          BY <5>2, <5>3
      <4>3. i \in 1 .. marker \/ i = marker'
        BY <2>1
      <4>4. QED
        BY <4>1, <4>2, <4>3
    <3>4. QED
      BY <2>1, <3>2, <3>3 DEF Correlation
  <2>7. QED
    BY <1>2, <2>5, <2>6 DEF CorrelationInv
<1>6. CASE Correlated
  BY <1>1, <1>2, <1>6 DEF Correlated, CorrelationInv, OneWindowPerCrash, Correlation, SystemCrashes
<1>7. CASE FindOnset
  BY <1>1, <1>2, <1>7 DEF FindOnset, CorrelationInv, OneWindowPerCrash, Correlation, SystemCrashes
<1>8. CASE EvaluateRule
  BY <1>1, <1>2, <1>8 DEF EvaluateRule, CorrelationInv, OneWindowPerCrash, Correlation, SystemCrashes
<1>9. CASE CombineFindings
  BY <1>1, <1>2, <1>9 DEF CombineFindings, CorrelationInv, OneWindowPerCrash, Correlation, SystemCrashes
<1>10. CASE Finished \/ UNCHANGED vars
  BY <1>1, <1>2, <1>10 DEF Finished, vars, CorrelationInv, OneWindowPerCrash, Correlation, SystemCrashes
<1>11. QED
  BY <1>1, <1>4, <1>5, <1>6, <1>7, <1>8, <1>9, <1>10 DEF Next

(* However close the dumps and the markers of a collection are, no crash   *)
(* gets a second window from the log.                                      *)
THEOREM CrashesAreCountedOnce == Spec => []OneWindowPerCrash
<1>1. CorrelationInv => OneWindowPerCrash
  BY DEF CorrelationInv
<1>2. QED
  BY <1>1, InitCorrelation, NextCorrelation, PTL DEF Spec

(* And none is missing when correlation ends.                              *)
THEOREM NoCrashIsMissing == Spec => []EveryCrashHasAWindow
<1>1. CorrelationInv => EveryCrashHasAWindow
  <2>1. SUFFICES ASSUME CorrelationInv, phase \in {"onset", "rules", "done"}
                 PROVE  EveryCrashHasAWindow
    BY DEF EveryCrashHasAWindow
  <2>2. DOMAIN report.timeline = 1 .. marker
    BY <2>1, ReportTimes DEF CorrelationInv, Correlation, TypeOK
  <2>3. QED
    BY <2>1, <2>2 DEF CorrelationInv, Correlation, EveryCrashHasAWindow
<1>2. QED
  BY <1>1, InitCorrelation, NextCorrelation, PTL DEF Spec

(* Together: the windows are the crashes, for any report and any length of *)
(* the log.                                                                *)
THEOREM WindowsAreTheCrashes == Spec => []CrashesAndWindowsMatch
<1>1. OneWindowPerCrash /\ EveryCrashHasAWindow => CrashesAndWindowsMatch
  BY DEF CrashesAndWindowsMatch
<1>2. QED
  BY <1>1, CrashesAreCountedOnce, NoCrashIsMissing, PTL

(***************************************************************************)
(* A healthy machine.                                                      *)
(***************************************************************************)
LEMMA AtMostOne ==
  ASSUME NEW S, \A x, y \in S : x = y
  PROVE  Cardinality(S) \in {0, 1}
<1>1. CASE S = {}
  BY <1>1, FS_EmptySet
<1>2. CASE S # {}
  <2>1. PICK x \in S : TRUE
    BY <1>2
  <2>2. S = {x}
    BY <2>1
  <2>3. QED
    BY <2>2, FS_Singleton
<1>3. QED
  BY <1>1, <1>2

LEMMA NothingInOrder == \A order \in Orders({}) : <<>> \o order = <<>>
<1>1. SUFFICES ASSUME NEW order \in SetToSeqs({}) PROVE <<>> \o order = <<>>
  BY DEF Orders
<1>2. Cardinality({}) = 0 /\ 1 .. 0 = {}
  BY FS_EmptySet
<1>3. order \in [{} -> {}]
  BY <1>1, <1>2 DEF SetToSeqs
<1>4. order = <<>>
  BY <1>3
<1>5. QED
  BY <1>4

(* No rule but the one on firmware finds anything on a healthy machine     *)
(* without a changepoint.                                                  *)
LEMMA NoRuleFires ==
  ASSUME NEW r \in Reports, Healthy(r), NEW rule \in ToSet(AllRules) \ {"FirmwareAge"}
  PROVE  Evaluate(rule, r, None) = {}
<1>1. \A kinds : kinds \cap {"device", "other"} = {} => Events(r, kinds) = {}
  BY DEF Healthy, Events
<1>2. Dumps(r, "kernel") = {}
  BY DEF Healthy, Dumps
<1>3. Whea(r) = {} /\ DiskError(r) = {} /\ Unexplained(r) = {}
  <2>1. /\ Events(r, {"corrected", "uncorrected"}) = {}
        /\ Events(r, {"disk"}) = {} /\ Events(r, {"shutdown"}) = {}
    BY <1>1
  <2>2. QED
    BY <2>1 DEF Whea, DiskError, Unexplained
<1>4. BugCheck(r) = {} /\ CrashAttribution(r) = {}
  BY <1>2 DEF BugCheck, CrashAttribution, Attributed
<1>5. PowerLoss(r) = {}
  BY <1>3 DEF PowerLoss
<1>6. ApplicationCrash(r) = {}
  <2> DEFINE of(process) == {i \in Dumps(r, "user") : r.crashes[i].module = process}
  <2>1. ASSUME NEW process PROVE ~(Cardinality(of(process)) > 1)
    <3>1. \A i, j \in of(process) : i = j
      BY DEF Dumps, Healthy
    <3>2. Cardinality(of(process)) \in {0, 1}
      <4> HIDE DEF of
      <4> QED BY <3>1, AtMostOne
    <3>3. QED
      BY <3>2
  <2>2. QED
    BY <2>1 DEF ApplicationCrash
<1>7. Vulnerable(r) = {}
  BY DEF Healthy, Vulnerable
<1>8. VulnerableDriver(r) = {} /\ SecurityPosture(r) = {}
  BY <1>7 DEF VulnerableDriver, SecurityPosture
<1>9. UnsignedDriver(r) = {}
  BY DEF Healthy, UnsignedDriver
<1>10. SensorContention(r) = {}
  <2>1. \A i, j \in Contending(r) : i = j
    BY DEF Healthy
  <2>2. Cardinality(Contending(r)) \in {0, 1}
    BY <2>1, AtMostOne
  <2>3. QED
    BY <2>2 DEF SensorContention
<1>11. DeviceProblem(r) = {} /\ ServiceFailure(r) = {}
  BY DEF Healthy, DeviceProblem, ServiceFailure
<1>12. DeviceReEnumeration(r) = {}
  BY DEF Healthy, DeviceReEnumeration
<1>13. ReliabilityTrend(r) = {}
  BY DEF Healthy, ReliabilityTrend
<1>14. Changepoint(None) = {}
  BY DEF Changepoint
<1>15. rule \in {"Whea", "DiskError", "BugCheck", "CrashAttribution", "PowerLoss",
                 "ApplicationCrash", "VulnerableDriver", "UnsignedDriver", "SensorContention",
                 "DeviceProblem", "DeviceReEnumeration", "ServiceFailure", "ReliabilityTrend",
                 "Changepoint", "SecurityPosture"}
  BY DEF ToSet, AllRules
<1>16. QED
  BY <1>3, <1>4, <1>5, <1>6, <1>8, <1>9, <1>10, <1>11, <1>12, <1>13, <1>14, <1>15
  DEF Evaluate

(* The rule on firmware does only where it takes an application for a      *)
(* stop.                                                                   *)
LEMMA FirmwareMisreads ==
  ASSUME NEW r \in Reports, Healthy(r)
  PROVE  /\ FirmwareAge(r) # {} => MistakenForAStop(r)
         /\ \A f \in FirmwareAge(r) : f.rule = "FirmwareAge"
<1>1. Events(r, {"corrected", "uncorrected"}) = {}
  BY DEF Healthy, Events
<1>2. Dumps(r, "user") = DOMAIN r.crashes
  BY DEF Healthy, Dumps
<1>3. QED
  BY <1>1, <1>2 DEF FirmwareAge, HardwareTrouble, MistakenForAStop, Finding

(* The last rule is the one on firmware, and what it finds stands first.   *)
LEMMA FirmwareIsLast ==
  /\ AllRules[Len(AllRules)] = "FirmwareAge"
  /\ \A n \in 1 .. Len(AllRules) - 1 : AllRules[n] \in ToSet(AllRules) \ {"FirmwareAge"}
<1>1. Len(AllRules) = 16 /\ DOMAIN AllRules = 1 .. 16
  BY DEF AllRules
<1>2. AllRules[16] = "FirmwareAge"
  BY DEF AllRules
<1>3. \A n \in 1 .. 15 : AllRules[n] # "FirmwareAge"
  BY DEF AllRules
<1>4. \A n \in 1 .. 15 : AllRules[n] \in ToSet(AllRules)
  BY <1>1 DEF ToSet
<1>5. QED
  BY <1>1, <1>2, <1>3, <1>4

LEMMA OnlyWhatIsFound ==
  ASSUME NEW found, IsFiniteSet(found), NEW order \in Orders(found)
  PROVE  /\ <<>> \o order # <<>> => found # {}
         /\ \A i \in DOMAIN (<<>> \o order) : (<<>> \o order)[i] \in found
<1>1. order \in [1 .. Cardinality(found) -> found]
  BY DEF Orders, SetToSeqs
<1>2. Cardinality(found) \in Nat
  BY FS_CardinalityType
<1>3. order \in Seq(found)
  BY <1>1, <1>2
<1>4. <<>> \o order = order
  BY <1>3, ConcatEmptySeq
<1>5. ASSUME found = {} PROVE <<>> \o order = <<>>
  BY <1>5, NothingInOrder
<1>6. QED
  BY <1>1, <1>4, <1>5

(* Nothing crashed, so there is no window and no changepoint, and before   *)
(* the last rule there is no finding.                                      *)
HealthyInv ==
  /\ TypeOK
  /\ HealthyMachineIsSilent
  /\ Healthy(report) => windows = {} /\ onset = None
  /\ Healthy(report) /\ evaluated < Len(AllRules) => findings = <<>>

LEMMA InitHealthy == Init => HealthyInv
BY InitTypeOK DEF Init, HealthyInv, HealthyMachineIsSilent

LEMMA NextHealthy == HealthyInv /\ [Next]_vars => HealthyInv'
<1>1. SUFFICES ASSUME HealthyInv, [Next]_vars PROVE HealthyInv'
  OBVIOUS
<1>2. TypeOK /\ TypeOK' /\ report \in Reports
  BY <1>1, NextTypeOK DEF HealthyInv, TypeOK
<1>3. report' = report
  BY <1>1 DEF Next, vars, CorrelateDumps, CorrelateEvent, Correlated, FindOnset, EvaluateRule,
              CombineFindings, Finished
<1>4. SUFFICES ASSUME Healthy(report)
               PROVE  /\ windows' = {} /\ onset' = None
                      /\ evaluated' < Len(AllRules) => findings' = <<>>
                      /\ findings' # <<>> => MistakenForAStop(report)
                      /\ \A i \in DOMAIN findings' : findings'[i].rule = "FirmwareAge"
  BY <1>2, <1>3 DEF HealthyInv, HealthyMachineIsSilent
<1>5. /\ windows = {} /\ onset = None
      /\ evaluated < Len(AllRules) => findings = <<>>
      /\ findings # <<>> => MistakenForAStop(report)
      /\ \A i \in DOMAIN findings : findings[i].rule = "FirmwareAge"
  BY <1>1, <1>4 DEF HealthyInv, HealthyMachineIsSilent
<1>6. CASE CorrelateDumps
  <2>1. SystemCrashes = {}
    BY <1>4 DEF Healthy, SystemCrashes, Dumps
  <2>2. QED
    BY <1>5, <1>6, <2>1 DEF CorrelateDumps
<1>7. CASE CorrelateEvent
  <2>1. marker' \in DOMAIN report.timeline
    BY <1>2, <1>7, ReportTimes DEF CorrelateEvent, TypeOK
  <2>2. ~IsCrashMarker(report.timeline[marker'])
    BY <1>4, <2>1 DEF Healthy, IsCrashMarker
  <2>3. QED
    BY <1>5, <1>7, <2>2 DEF CorrelateEvent
<1>8. CASE FindOnset
  <2>1. Cardinality(windows) < MinCrashesAfter
    BY <1>5, FS_EmptySet DEF MinCrashesAfter
  <2>2. Analyse = None
    BY <2>1 DEF Analyse
  <2>3. QED
    BY <1>5, <1>8, <2>2 DEF FindOnset
<1>9. CASE EvaluateRule
  <2>1. /\ evaluated \in Nat /\ Len(AllRules) \in Nat
        /\ evaluated < Len(AllRules) /\ evaluated' = evaluated + 1
        /\ UNCHANGED <<windows, onset>>
    BY <1>2, <1>9 DEF EvaluateRule, TypeOK, AllRules
  <2>2. PICK order \in Orders(Evaluate(AllRules[evaluated'], report, None)) :
          findings' = <<>> \o order
    BY <1>5, <1>9, <2>1 DEF EvaluateRule
  <2>3. CASE evaluated' < Len(AllRules)
    <3>1. AllRules[evaluated'] \in ToSet(AllRules) \ {"FirmwareAge"}
      BY <2>1, <2>3, FirmwareIsLast
    <3>2. Evaluate(AllRules[evaluated'], report, None) = {}
      BY <1>2, <1>4, <3>1, NoRuleFires
    <3>3. findings' = <<>>
      BY <2>2, <3>2, NothingInOrder
    <3>4. QED
      BY <1>5, <2>1, <3>3
  <2>4. CASE evaluated' = Len(AllRules)
    <3>1. Evaluate(AllRules[evaluated'], report, None) = FirmwareAge(report)
      BY <2>4, FirmwareIsLast DEF Evaluate
    <3>2. IsFiniteSet(FirmwareAge(report))
      BY FS_EmptySet, FS_Singleton DEF FirmwareAge
    <3>3. /\ findings' # <<>> => FirmwareAge(report) # {}
          /\ \A i \in DOMAIN findings' : findings'[i] \in FirmwareAge(report)
      BY <2>2, <3>1, <3>2, OnlyWhatIsFound
    <3>4. QED
      BY <1>2, <1>4, <1>5, <2>1, <2>4, <3>3, FirmwareMisreads
  <2>5. QED
    BY <2>1, <2>3, <2>4
<1>10. CASE Correlated \/ CombineFindings \/ Finished \/ UNCHANGED vars
  BY <1>5, <1>10 DEF Correlated, CombineFindings, Finished, vars
<1>11. QED
  BY <1>1, <1>6, <1>7, <1>8, <1>9, <1>10 DEF Next

(* Whatever the lengths of the window and of the log, and however the      *)
(* thresholds are set, a healthy machine produces no findings, but for one *)
(* on old firmware where an application's exception code passes for a      *)
(* stop.                                                                   *)
THEOREM HealthyMachinesAreSilent == Spec => []HealthyMachineIsSilent
<1>1. HealthyInv => HealthyMachineIsSilent
  BY DEF HealthyInv, HealthyMachineIsSilent
<1>2. QED
  BY <1>1, InitHealthy, NextHealthy, PTL DEF Spec

(***************************************************************************)
(* Folds.  A fold is defined by CHOOSE, so that a function with its        *)
(* equation exists has to be shown before anything can be said of it.      *)
(***************************************************************************)
(* Induction over the subsets of a finite set, with a set of subsets for   *)
(* the induction hypothesis.                                               *)
LEMMA EverySubset ==
  ASSUME NEW S, IsFiniteSet(S), NEW Q \in SUBSET SUBSET S,
         \A s \in SUBSET S : (\A x \in s : s \ {x} \in Q) => s \in Q
  PROVE  Q = SUBSET S
<1> DEFINE Bad == (SUBSET S) \ Q
           sizes == {Cardinality(s) : s \in Bad}
<1>1. SUFFICES ASSUME Bad # {} PROVE FALSE
  OBVIOUS
<1>2. \A s \in SUBSET S : IsFiniteSet(s) /\ Cardinality(s) \in Nat
  BY FS_Subset, FS_CardinalityType
<1>3. sizes \in SUBSET Nat /\ sizes # {}
  BY <1>1, <1>2
<1>4. Min(sizes) \in sizes /\ \A n \in sizes : Min(sizes) <= n
  <2> HIDE DEF sizes
  <2> QED BY <1>3, MinIsLeast
<1>5. PICK s \in Bad : \A t \in Bad : Cardinality(s) <= Cardinality(t)
  <2>1. PICK s \in Bad : Cardinality(s) = Min(sizes)
    BY <1>4
  <2>2. \A t \in Bad : Cardinality(t) \in sizes
    OBVIOUS
  <2>3. QED
    BY <1>4, <2>1, <2>2
<1>6. ASSUME NEW x \in s PROVE s \ {x} \in Q
  <2>1. Cardinality(s \ {x}) = Cardinality(s) - 1
    BY <1>2, FS_RemoveElement
  <2>2. s \ {x} \notin Bad
    BY <1>2, <1>5, <2>1
  <2>3. QED
    BY <2>2
<1>7. QED
  BY <1>6

(* f folds op over the subsets of S, in the order in which pick takes their *)
(* elements.                                                               *)
FoldOf(f, S, base, op, pick) ==
  \A s \in SUBSET S : f[s] = IF s = {} THEN base ELSE op[pick[s]][f[s \ {pick[s]}]]
HasFold(S, A, base, op, pick) == \E f \in [SUBSET S -> A] : FoldOf(f, S, base, op, pick)

LEMMA FoldExists ==
  ASSUME NEW S, IsFiniteSet(S), NEW A, NEW base \in A, NEW op \in [S -> [A -> A]],
         NEW pick, \A s \in SUBSET S : s # {} => pick[s] \in s
  PROVE  HasFold(S, A, base, op, pick)
<1> DEFINE Step(f, s) == IF s = {} THEN base ELSE op[pick[s]][f[s \ {pick[s]}]]
           Good == {n \in Nat : \E f \in [SUBSET S -> A] : \A s \in SUBSET S :
                                  Cardinality(s) <= n => f[s] = Step(f, s)}
           Bad == Nat \ Good
<1>1. \A s \in SUBSET S : IsFiniteSet(s) /\ Cardinality(s) \in Nat
  BY FS_Subset, FS_CardinalityType
<1>2. \A s \in SUBSET S : s # {} => Cardinality(s \ {pick[s]}) = Cardinality(s) - 1
  BY <1>1, FS_RemoveElement
<1>3. \A f \in [SUBSET S -> A], s \in SUBSET S : Step(f, s) \in A
  <2> SUFFICES ASSUME NEW f \in [SUBSET S -> A], NEW s \in SUBSET S, s # {} PROVE Step(f, s) \in A
    OBVIOUS
  <2>1. pick[s] \in S /\ f[s \ {pick[s]}] \in A
    OBVIOUS
  <2>2. QED
    BY <2>1
<1>4. 0 \in Good
  <2>1. \A s \in SUBSET S : Cardinality(s) <= 0 => s = {}
    BY <1>1, FS_EmptySet
  <2>2. [s \in SUBSET S |-> base] \in [SUBSET S -> A]
    OBVIOUS
  <2>3. QED
    BY <2>1, <2>2
<1>5. ASSUME NEW n \in Good PROVE n + 1 \in Good
  <2>1. PICK f \in [SUBSET S -> A] : \A s \in SUBSET S : Cardinality(s) <= n => f[s] = Step(f, s)
    OBVIOUS
  <2> DEFINE g == [s \in SUBSET S |-> Step(f, s)]
  <2>2. g \in [SUBSET S -> A]
    BY <1>3
  <2>3. ASSUME NEW s \in SUBSET S, Cardinality(s) <= n + 1 PROVE g[s] = Step(g, s)
    <3>1. CASE s = {}
      BY <3>1
    <3>2. CASE s # {}
      <4> DEFINE t == s \ {pick[s]}
      <4>1. t \in SUBSET S /\ Cardinality(t) <= n
        BY <1>1, <1>2, <2>3, <3>2
      <4>2. f[t] = Step(f, t) /\ g[t] = Step(f, t)
        BY <2>1, <4>1
      <4>3. g[s] = op[pick[s]][f[t]]
        BY <3>2
      <4>4. Step(g, s) = op[pick[s]][g[t]]
        BY <3>2
      <4>5. QED
        BY <4>2, <4>3, <4>4
    <3>3. QED
      BY <3>1, <3>2
  <2>4. QED
    <3> HIDE DEF g, Step
    <3> QED BY <2>2, <2>3
<1> HIDE DEF Good
<1>6. Bad = {}
  <2> SUFFICES ASSUME Bad # {} PROVE FALSE
    OBVIOUS
  <2> DEFINE m == Min(Bad)
  <2>1. m \in Bad /\ \A n \in Bad : m <= n
    BY MinIsLeast
  <2> HIDE DEF m
  <2>2. m \in Nat /\ m # 0
    BY <1>4, <2>1
  <2>3. m - 1 \in Nat /\ ~(m <= m - 1)
    BY <2>2
  <2>4. m - 1 \in Good
    BY <2>1, <2>3
  <2>5. (m - 1) + 1 \in Good
    BY <1>5, <2>4
  <2>6. (m - 1) + 1 = m
    BY <2>2
  <2>7. QED
    BY <2>1, <2>5, <2>6
<1>7. Cardinality(S) \in Good
  BY <1>1, <1>6
<1>8. PICK f \in [SUBSET S -> A] : \A s \in SUBSET S : Cardinality(s) <= Cardinality(S) => f[s] = Step(f, s)
  BY <1>7 DEF Good
<1>9. \A s \in SUBSET S : Cardinality(s) <= Cardinality(S)
  BY FS_Subset
<1>10. \A s \in SUBSET S : f[s] = Step(f, s)
  BY <1>8, <1>9
<1>11. QED
  BY <1>10 DEF HasFold, FoldOf

LEMMA ConcatToSet ==
  ASSUME NEW S, NEW s \in Seq(S), NEW t \in Seq(S)
  PROVE  s \o t \in Seq(S) /\ ToSet(s \o t) = ToSet(s) \cup ToSet(t)
<1> DEFINE c == s \o t
<1>1. /\ c \in Seq(S)
      /\ Len(c) = Len(s) + Len(t)
      /\ \A i \in 1 .. Len(s) + Len(t) : c[i] = IF i <= Len(s) THEN s[i] ELSE t[i - Len(s)]
  BY ConcatProperties
<1> HIDE DEF c
<1>2. /\ DOMAIN c = 1 .. Len(s) + Len(t) /\ DOMAIN s = 1 .. Len(s)
      /\ DOMAIN t = 1 .. Len(t) /\ Len(s) \in Nat /\ Len(t) \in Nat
  BY <1>1
<1>3. ASSUME NEW k \in DOMAIN c PROVE c[k] \in ToSet(s) \cup ToSet(t)
  <2>1. CASE k <= Len(s)
    <3>1. k \in DOMAIN s /\ c[k] = s[k]
      BY <1>1, <1>2, <2>1
    <3>2. QED
      BY <3>1 DEF ToSet
  <2>2. CASE ~ (k <= Len(s))
    <3>1. k - Len(s) \in DOMAIN t /\ c[k] = t[k - Len(s)]
      BY <1>1, <1>2, <2>2
    <3>2. QED
      BY <3>1 DEF ToSet
  <2>3. QED
    BY <2>1, <2>2
<1>4. ASSUME NEW i \in DOMAIN s PROVE \E k \in DOMAIN c : c[k] = s[i]
  <2>1. i \in DOMAIN c /\ c[i] = s[i]
    BY <1>1, <1>2
  <2>2. QED
    BY <2>1
<1>5. ASSUME NEW i \in DOMAIN t PROVE \E k \in DOMAIN c : c[k] = t[i]
  <2>1. Len(s) + i \in DOMAIN c /\ c[Len(s) + i] = t[i]
    BY <1>1, <1>2
  <2>2. QED
    BY <2>1
<1>6. ToSet(c) = ToSet(s) \cup ToSet(t)
  BY <1>3, <1>4, <1>5 DEF ToSet
<1>7. QED
  BY <1>1, <1>6 DEF c

LEMMA MaxIsGreatest ==
  ASSUME NEW n \in Nat, NEW I \in SUBSET (0 .. n), I # {}
  PROVE  Max(I) \in I /\ \A i \in I : i <= Max(I)
<1> DEFINE below == {n - i : i \in I}
<1>1. below \in SUBSET Nat /\ below # {}
  OBVIOUS
<1>2. Min(below) \in below /\ \A m \in below : Min(below) <= m
  <2> HIDE DEF below
  <2> QED BY <1>1, MinIsLeast
<1>3. PICK g \in I : n - g = Min(below)
  BY <1>2
<1>4. ASSUME NEW i \in I PROVE g >= i
  <2>1. n - i \in below
    OBVIOUS
  <2>2. n - g <= n - i
    BY <1>2, <1>3, <2>1
  <2>3. QED
    BY <2>2
<1>5. \A i \in I : g >= i
  BY <1>4
<1>6. Max(I) \in I /\ \A i \in I : Max(I) >= i
  BY <1>5 DEF Max
<1>7. QED
  BY <1>6

(* Where InOrder inserts the cause e, and what it makes of the sequence.   *)
PlaceOf(e, seq) == Max({i \in DOMAIN seq : ~Before(e, seq[i])} \cup {0})
Inserted(e, seq) ==
  SubSeq(seq, 1, PlaceOf(e, seq)) \o <<e>> \o SubSeq(seq, PlaceOf(e, seq) + 1, Len(seq))

LEMMA InsertionKeeps ==
  ASSUME NEW set, NEW e \in set, NEW seq \in Seq(set)
  PROVE  /\ Inserted(e, seq) \in Seq(set)
         /\ ToSet(Inserted(e, seq)) = ToSet(seq) \cup {e}
<1> DEFINE n == PlaceOf(e, seq)
           front == SubSeq(seq, 1, n)
           back == SubSeq(seq, n + 1, Len(seq))
<1>1. DOMAIN seq = 1 .. Len(seq) /\ Len(seq) \in Nat /\ \A i \in 1 .. Len(seq) : seq[i] \in set
  OBVIOUS
<1>2. n \in 0 .. Len(seq)
  <2> DEFINE I == {i \in DOMAIN seq : ~Before(e, seq[i])} \cup {0}
  <2>1. I \in SUBSET (0 .. Len(seq)) /\ I # {}
    BY <1>1
  <2> HIDE DEF I
  <2>2. Max(I) \in I
    BY <1>1, <2>1, MaxIsGreatest
  <2>3. QED
    BY <2>1, <2>2 DEF PlaceOf, I
<1> HIDE DEF n
<1>3. /\ front \in Seq(set) /\ Len(front) = n
      /\ \A i \in 1 .. n : front[i] = seq[i]
  <2>1. \A i \in 1 .. n : seq[i] \in set
    BY <1>1, <1>2
  <2>2. /\ front \in Seq(set)
        /\ Len(front) = IF 1 <= n THEN n - 1 + 1 ELSE 0
        /\ \A i \in 1 .. n - 1 + 1 : front[i] = seq[1 + i - 1]
    BY <1>2, <2>1, SubSeqProperties
  <2> HIDE DEF front
  <2>3. QED
    BY <1>2, <2>2
<1>4. /\ back \in Seq(set) /\ Len(back) = Len(seq) - n
      /\ \A i \in 1 .. Len(seq) - n : back[i] = seq[n + i]
  <2>1. \A i \in n + 1 .. Len(seq) : seq[i] \in set
    BY <1>1, <1>2
  <2>2. /\ back \in Seq(set)
        /\ Len(back) = IF n + 1 <= Len(seq) THEN Len(seq) - (n + 1) + 1 ELSE 0
        /\ \A i \in 1 .. Len(seq) - (n + 1) + 1 : back[i] = seq[(n + 1) + i - 1]
    BY <1>1, <1>2, <2>1, SubSeqProperties
  <2> HIDE DEF back
  <2> DEFINE len == Len(seq)
  <2>3. len \in Nat /\ n \in 0 .. len
    BY <1>1, <1>2
  <2> HIDE DEF len
  <2>4. /\ len - (n + 1) + 1 = len - n
        /\ n + 1 <= len \/ len - n = 0
        /\ \A i \in 1 .. len - n : (n + 1) + i - 1 = n + i
    BY <2>3
  <2>5. QED
    BY <2>2, <2>4 DEF len
<1> HIDE DEF front, back
<1>5. ToSet(seq) = ToSet(front) \cup ToSet(back)
  <2>1. DOMAIN front = 1 .. n /\ DOMAIN back = 1 .. Len(seq) - n
    BY <1>3, <1>4
  <2>2. ASSUME NEW i \in DOMAIN seq PROVE seq[i] \in ToSet(front) \cup ToSet(back)
    <3>1. CASE i <= n
      BY <1>1, <1>2, <1>3, <2>1, <3>1 DEF ToSet
    <3>2. CASE ~ (i <= n)
      <4>1. i - n \in DOMAIN back /\ back[i - n] = seq[i]
        BY <1>1, <1>2, <1>4, <2>1, <3>2
      <4>2. QED
        BY <4>1 DEF ToSet
    <3>3. QED
      BY <3>1, <3>2
  <2>3. \A i \in DOMAIN front : i \in DOMAIN seq /\ front[i] = seq[i]
    BY <1>1, <1>2, <1>3, <2>1
  <2>4. \A i \in DOMAIN back : n + i \in DOMAIN seq /\ back[i] = seq[n + i]
    BY <1>1, <1>2, <1>4, <2>1
  <2>5. QED
    BY <2>2, <2>3, <2>4 DEF ToSet
<1>6. <<e>> \in Seq(set) /\ ToSet(<<e>>) = {e}
  BY DEF ToSet
<1>7. front \o <<e>> \in Seq(set) /\ ToSet(front \o <<e>>) = ToSet(front) \cup {e}
  <2> DEFINE one == <<e>>
  <2> HIDE DEF one
  <2>1. one \in Seq(set) /\ ToSet(one) = {e}
    BY <1>6 DEF one
  <2>2. front \o one \in Seq(set) /\ ToSet(front \o one) = ToSet(front) \cup ToSet(one)
    BY <1>3, <2>1, ConcatToSet
  <2>3. QED
    BY <2>1, <2>2 DEF one
<1>8. Inserted(e, seq) = (front \o <<e>>) \o back
  BY DEF Inserted, front, back, n
<1> DEFINE left == front \o <<e>>
<1>9. left \in Seq(set) /\ ToSet(left) = ToSet(front) \cup {e} /\ Inserted(e, seq) = left \o back
  BY <1>7, <1>8
<1> HIDE DEF left
<1>10. left \o back \in Seq(set) /\ ToSet(left \o back) = ToSet(left) \cup ToSet(back)
  BY <1>4, <1>9, ConcatToSet
<1>11. QED
  BY <1>5, <1>9, <1>10

(* Ranking a finite set of causes keeps each of them and adds none.        *)
LEMMA RankedKeepsAll ==
  ASSUME NEW set, IsFiniteSet(set)
  PROVE  ToSet(Ranked(set)) = set
<1> DEFINE any(s) == CHOOSE x \in s : TRUE
           Folds(iter) == iter = [s \in SUBSET set |->
                                    IF s = {} THEN <<>> ELSE Inserted(any(s), iter[s \ {any(s)}])]
<1>1. \A s : s # {} => any(s) \in s
  OBVIOUS
<1>2. \E iter : Folds(iter)
  <2> DEFINE op == [e \in set |-> [seq \in Seq(set) |-> Inserted(e, seq)]]
             pick == [s \in SUBSET set |-> any(s)]
  <2>1. op \in [set -> [Seq(set) -> Seq(set)]]
    BY InsertionKeeps
  <2>2. \A s \in SUBSET set : s # {} => pick[s] \in s
    BY <1>1
  <2> DEFINE base == <<>>
  <2>3. base \in Seq(set)
    OBVIOUS
  <2>4. HasFold(set, Seq(set), base, op, pick)
    <3> HIDE DEF any, op, pick, base
    <3> QED BY <2>1, <2>2, <2>3, FoldExists
  <2>5. PICK f \in [SUBSET set -> Seq(set)] : \A s \in SUBSET set :
          f[s] = IF s = {} THEN <<>> ELSE op[pick[s]][f[s \ {pick[s]}]]
    <3> HIDE DEF any, op, pick
    <3> QED BY <2>4 DEF HasFold, FoldOf
  <2>6. ASSUME NEW s \in SUBSET set, s # {}
        PROVE  f[s] = Inserted(any(s), f[s \ {any(s)}])
    <3>1. any(s) \in set /\ f[s \ {any(s)}] \in Seq(set) /\ pick[s] = any(s)
      BY <1>1, <2>6
    <3> HIDE DEF any, pick
    <3>2. f[s] = op[any(s)][f[s \ {any(s)}]]
      BY <2>5, <2>6, <3>1
    <3>3. QED
      BY <3>1, <3>2
  <2>7. f = [s \in SUBSET set |-> IF s = {} THEN <<>> ELSE Inserted(any(s), f[s \ {any(s)}])]
    <3> HIDE DEF any, op, pick
    <3>1. \A s \in SUBSET set : f[s] = IF s = {} THEN <<>> ELSE Inserted(any(s), f[s \ {any(s)}])
      BY <2>5, <2>6
    <3>2. QED
      BY <3>1
  <2>8. QED
    <3> HIDE DEF any
    <3> QED BY <2>7
<1> DEFINE iter == CHOOSE iter : Folds(iter)
<1>3. Ranked(set) = iter[set]
  BY DEF Ranked, InOrder, FoldSet, MapThenFoldSet, Inserted, PlaceOf
<1> HIDE DEF any
<1>4. \A s \in SUBSET set : iter[s] = IF s = {} THEN <<>> ELSE Inserted(any(s), iter[s \ {any(s)}])
  <2>1. Folds(iter)
    <3> HIDE DEF Folds
    <3> QED BY <1>2
  <2> HIDE DEF iter
  <2>2. QED
    BY <2>1
<1> HIDE DEF iter, Folds
<1> DEFINE Q == {s \in SUBSET set : iter[s] \in Seq(set) /\ ToSet(iter[s]) = s}
<1>5. ASSUME NEW s \in SUBSET set, \A x \in s : s \ {x} \in Q
      PROVE  s \in Q
  <2>1. CASE s = {}
    <3>1. iter[s] = <<>>
      BY <1>4, <2>1
    <3>2. <<>> \in Seq(set) /\ ToSet(<<>>) = {}
      BY DEF ToSet
    <3>3. QED
      BY <2>1, <3>1, <3>2
  <2>2. CASE s # {}
    <3> DEFINE x == any(s)
               rest == iter[s \ {x}]
    <3>1. x \in s /\ x \in set
      BY <1>1, <2>2
    <3>2. rest \in Seq(set) /\ ToSet(rest) = s \ {x}
      BY <1>5, <3>1
    <3>3. iter[s] = Inserted(x, rest)
      BY <1>4, <2>2
    <3> HIDE DEF x, rest
    <3>4. iter[s] \in Seq(set) /\ ToSet(iter[s]) = (s \ {x}) \cup {x}
      BY <3>1, <3>2, <3>3, InsertionKeeps
    <3>5. QED
      BY <3>1, <3>4
  <2>3. QED
    BY <2>1, <2>2
<1>6. Q = SUBSET set
  <2> DEFINE R == Q
  <2>1. Q \in SUBSET SUBSET set
    OBVIOUS
  <2> HIDE DEF Q
  <2>2. QED
    BY <1>5, <2>1, EverySubset
<1>7. QED
  BY <1>3, <1>6

(***************************************************************************)
(* What the rules find.                                                    *)
(***************************************************************************)
LEMMA ImageIsFinite ==
  ASSUME NEW S, IsFiniteSet(S), NEW f
  PROVE  IsFiniteSet({f[x] : x \in S})
<1> DEFINE T == {f[x] : x \in S}
           g == [x \in S |-> f[x]]
<1>1. g \in Surjection(S, T)
  BY DEF Surjection
<1>2. QED
  <2> HIDE DEF g, T
  <2>1. IsFiniteSet(T)
    BY <1>1, FS_Surjection
  <2>2. QED
    BY <2>1 DEF T

LEMMA IndicesAreFinite ==
  ASSUME NEW r \in Reports
  PROVE  /\ \A I \in SUBSET DOMAIN r.timeline : IsFiniteSet(I)
         /\ \A I \in SUBSET DOMAIN r.crashes : IsFiniteSet(I)
         /\ \A I \in SUBSET DOMAIN r.drivers : IsFiniteSet(I)
<1>1. ASSUME NEW s, s \in Seq(ToSet(s)) PROVE \A I \in SUBSET DOMAIN s : IsFiniteSet(I)
  <2>1. DOMAIN s = 1 .. Len(s) /\ Len(s) \in Nat
    BY <1>1
  <2>2. IsFiniteSet(1 .. Len(s))
    BY <2>1, FS_Interval
  <2>3. QED
    BY <2>1, <2>2, FS_Subset
<1>2. /\ r.timeline \in Seq(ToSet(r.timeline))
      /\ r.crashes \in Seq(ToSet(r.crashes))
      /\ r.drivers \in Seq(ToSet(r.drivers))
  BY ReportsAreCollections
<1>3. QED
  BY <1>1, <1>2

LEMMA FindingsAre ==
  ASSUME NEW r \in Reports, NEW o, NEW rule \in ToSet(AllRules)
  PROVE  /\ IsFiniteSet(Evaluate(rule, r, o))
         /\ \A f \in Evaluate(rule, r, o) : f.cause = Root("power-loss") <=> rule = "PowerLoss"
<1>1. \A kinds : IsFiniteSet(Events(r, kinds))
  BY IndicesAreFinite DEF Events
<1>2. \A source : IsFiniteSet(Dumps(r, source))
  BY IndicesAreFinite DEF Dumps
<1>3. \A x : IsFiniteSet({x})
  BY FS_Singleton
<1>4. IsFiniteSet({})
  BY FS_EmptySet
<1>5. IsFiniteSet(DiskError(r)) /\ \A f \in DiskError(r) : f.cause = Root("storage-failure")
  <2> DEFINE of(device) == {i \in Events(r, {"disk"}) : r.timeline[i].about = device}
             about == [i \in Events(r, {"disk"}) |-> r.timeline[i].about]
             devices == {r.timeline[i].about : i \in Events(r, {"disk"})}
             found == [device \in devices |->
               Finding("DiskError", Root("storage-failure"), device,
                       Least(60 + 6 * Cardinality(of(device)), 95),
                       Newest(EventTimes(r, of(device))))]
  <2>1. IsFiniteSet({about[i] : i \in Events(r, {"disk"})})
    BY <1>1, ImageIsFinite
  <2>2. devices = {about[i] : i \in Events(r, {"disk"})}
    OBVIOUS
  <2>3. DiskError(r) = {found[device] : device \in devices}
    BY DEF DiskError
  <2>4. \A d \in devices : found[d].cause = Root("storage-failure")
    BY DEF Finding
  <2> HIDE DEF about, devices, found
  <2>5. QED
    BY <2>1, <2>2, <2>3, <2>4, ImageIsFinite
<1>6. IsFiniteSet(BugCheck(r)) /\ \A f \in BugCheck(r) : \E c : f.cause = RootCauseFor(c)
  <2> DEFINE dumps == {i \in Dumps(r, "kernel") : r.crashes[i].code # None}
             of(code) == {i \in dumps : r.crashes[i].code = code}
             code == [i \in dumps |-> r.crashes[i].code]
             codes == {r.crashes[i].code : i \in dumps}
             found == [c \in codes |->
               Finding("BugCheck", RootCauseFor(c), c,
                       Least(72 + 6 * Cardinality(of(c)), 94), Newest(CrashTimes(r, of(c))))]
  <2>1. IsFiniteSet(dumps)
    BY <1>2, FS_Subset
  <2>2. IsFiniteSet({code[i] : i \in dumps})
    <3> HIDE DEF dumps, code
    <3> QED BY <2>1, ImageIsFinite
  <2>3. codes = {code[i] : i \in dumps}
    OBVIOUS
  <2>4. BugCheck(r) = {found[c] : c \in codes}
    BY DEF BugCheck
  <2>5. \A c \in codes : found[c].cause = RootCauseFor(c)
    BY DEF Finding
  <2> HIDE DEF dumps, code, codes, found
  <2>6. QED
    BY <2>2, <2>3, <2>4, <2>5, ImageIsFinite
<1>7. IsFiniteSet(CrashAttribution(r)) /\ \A f \in CrashAttribution(r) : \E m : f.cause = DriverFault(m)
  <2> DEFINE of(module) == {i \in Attributed(r) : r.crashes[i].module = module}
             module == [i \in Attributed(r) |-> r.crashes[i].module]
             modules == {r.crashes[i].module : i \in Attributed(r)}
             found == [m \in modules |->
               Finding("CrashAttribution", DriverFault(m), m,
                       IF Cardinality(of(m)) > 1 THEN 93 ELSE 82, Newest(CrashTimes(r, of(m))))]
  <2>1. IsFiniteSet(Attributed(r))
    BY <1>2, FS_Subset DEF Attributed
  <2>2. IsFiniteSet({module[i] : i \in Attributed(r)})
    <3> HIDE DEF module
    <3> QED BY <2>1, ImageIsFinite
  <2>3. modules = {module[i] : i \in Attributed(r)}
    OBVIOUS
  <2>4. CrashAttribution(r) = {found[m] : m \in modules}
    BY DEF CrashAttribution
  <2>5. \A m \in modules : found[m].cause = DriverFault(m)
    BY DEF Finding
  <2> HIDE DEF module, modules, found
  <2>6. QED
    BY <2>2, <2>3, <2>4, <2>5, ImageIsFinite
<1>8. IsFiniteSet(ApplicationCrash(r)) /\ \A f \in ApplicationCrash(r) : \E m : f.cause = ApplicationFault(m)
  <2> DEFINE of(process) == {i \in Dumps(r, "user") : r.crashes[i].module = process}
             module == [i \in Dumps(r, "user") |-> r.crashes[i].module]
             modules == {r.crashes[i].module : i \in Dumps(r, "user")}
             repeated == {p \in modules : Cardinality(of(p)) > 1}
             found == [p \in repeated |->
               Finding("ApplicationCrash", ApplicationFault(p), p,
                       Least(22 + 6 * Cardinality(of(p)), 55), Newest(CrashTimes(r, of(p))))]
  <2>1. IsFiniteSet({module[i] : i \in Dumps(r, "user")})
    <3> HIDE DEF module
    <3> QED BY <1>2, ImageIsFinite
  <2>2. modules = {module[i] : i \in Dumps(r, "user")}
    OBVIOUS
  <2>3. repeated \in SUBSET modules
    OBVIOUS
  <2>4. ApplicationCrash(r) = {found[p] : p \in repeated}
    BY DEF ApplicationCrash
  <2>5. \A p \in repeated : found[p].cause = ApplicationFault(p)
    BY DEF Finding
  <2> HIDE DEF module, modules, repeated, found
  <2>6. IsFiniteSet(repeated)
    BY <2>1, <2>2, <2>3, FS_Subset
  <2>7. QED
    BY <2>4, <2>5, <2>6, ImageIsFinite
<1>9. IsFiniteSet(VulnerableDriver(r))
  <2> DEFINE found == [i \in Vulnerable(r) |->
               [Finding("VulnerableDriver", Root("vulnerable-driver"), r.drivers[i].name,
                        IF r.drivers[i].listed = "hash" THEN 90 ELSE 68, None) EXCEPT !.place = i]]
  <2>1. IsFiniteSet(Vulnerable(r))
    BY IndicesAreFinite DEF Vulnerable
  <2>2. VulnerableDriver(r) = {found[i] : i \in Vulnerable(r)}
    BY DEF VulnerableDriver
  <2> HIDE DEF found
  <2>3. QED
    BY <2>1, <2>2, ImageIsFinite
<1>10. /\ IsFiniteSet(Whea(r)) /\ IsFiniteSet(PowerLoss(r)) /\ IsFiniteSet(UnsignedDriver(r))
       /\ IsFiniteSet(SensorContention(r)) /\ IsFiniteSet(DeviceProblem(r))
       /\ IsFiniteSet(DeviceReEnumeration(r)) /\ IsFiniteSet(ServiceFailure(r))
       /\ IsFiniteSet(ReliabilityTrend(r)) /\ IsFiniteSet(Changepoint(o))
       /\ IsFiniteSet(SecurityPosture(r)) /\ IsFiniteSet(FirmwareAge(r))
  BY <1>3, <1>4, Zenon DEF Whea, PowerLoss, UnsignedDriver, SensorContention, DeviceProblem,
     DeviceReEnumeration, ServiceFailure, ReliabilityTrend, Changepoint, SecurityPosture,
     FirmwareAge
<1>11. rule \in {"Whea", "DiskError", "BugCheck", "CrashAttribution", "PowerLoss",
                 "ApplicationCrash", "VulnerableDriver", "UnsignedDriver", "SensorContention",
                 "DeviceProblem", "DeviceReEnumeration", "ServiceFailure", "ReliabilityTrend",
                 "Changepoint", "SecurityPosture", "FirmwareAge"}
  BY DEF ToSet, AllRules
<1>12. IsFiniteSet(Evaluate(rule, r, o))
  BY <1>5, <1>6, <1>7, <1>8, <1>9, <1>10, <1>11 DEF Evaluate
<1>13. \A f \in Whea(r) : f.cause = Root("hardware-error")
  BY DEF Whea, Finding
<1>14. \A f \in PowerLoss(r) : f.cause = Root("power-loss")
  BY DEF PowerLoss, Finding
<1>15. \A f \in VulnerableDriver(r) : f.cause = Root("vulnerable-driver")
  BY DEF VulnerableDriver, Finding
<1>16. \A f \in UnsignedDriver(r) : f.cause = Root("unsigned-driver")
  BY DEF UnsignedDriver, Finding
<1>17. \A f \in SensorContention(r) : f.cause = Root("sensor-contention")
  BY DEF SensorContention, Finding
<1>18. \A f \in DeviceProblem(r) \cup DeviceReEnumeration(r) : f.cause = Root("device-instability")
  BY DEF DeviceProblem, DeviceReEnumeration, Finding
<1>19. \A f \in ServiceFailure(r) : f.cause = Root("service-failure")
  BY DEF ServiceFailure, Finding
<1>20. \A f \in ReliabilityTrend(r) : f.cause = Root("instability-trend")
  BY DEF ReliabilityTrend, Finding
<1>21. \A f \in Changepoint(o) : f.cause = Root("recent-regression")
  BY DEF Changepoint, Finding
<1>22. \A f \in SecurityPosture(r) : f.cause = Root("vulnerable-driver")
  BY DEF SecurityPosture, Finding
<1>23. \A f \in FirmwareAge(r) : f.cause = Root("hardware-error")
  BY DEF FirmwareAge, Finding
<1>24. /\ \A c : RootCauseFor(c) # Root("power-loss")
       /\ \A m : DriverFault(m) # Root("power-loss") /\ ApplicationFault(m) # Root("power-loss")
       /\ \A name \in {"hardware-error", "storage-failure", "vulnerable-driver", "unsigned-driver",
                       "sensor-contention", "device-instability", "service-failure",
                       "instability-trend", "recent-regression"} : Root(name) # Root("power-loss")
  BY DEF RootCauseFor, DriverFault, ApplicationFault, Root
<1>25. \A f \in Evaluate(rule, r, o) : f.cause = Root("power-loss") <=> rule = "PowerLoss"
  BY <1>5, <1>6, <1>7, <1>8, <1>11, <1>13, <1>14, <1>15, <1>16, <1>17, <1>18,
     <1>19, <1>20, <1>21, <1>22, <1>23, <1>24 DEF Evaluate
<1>26. QED
  BY <1>12, <1>25

(***************************************************************************)
(* Resets.                                                                 *)
(***************************************************************************)
(* A window opened for a reset is that of a reset no dump explains; the    *)
(* power loss rule found something once it had such a reset; and ranking   *)
(* dropped nothing that was found.                                         *)
ResetInv ==
  /\ \A w \in windows : w.from = "shutdown" => w.item \in Unexplained(report)
  /\ findings \in Seq(ToSet(findings))
  /\ Root("power-loss") \in Causes(findings) <=> evaluated >= 5 /\ Unexplained(report) # {}
  /\ phase = "done" => evaluated = Len(AllRules) /\ Reported = Causes(findings)

LEMMA InitReset == Init => ResetInv
<1>1. SUFFICES ASSUME Init PROVE ResetInv
  OBVIOUS
<1>2. findings = <<>> /\ evaluated = 0 /\ windows = {} /\ phase = "dumps"
  BY <1>1 DEF Init
<1>3. Causes(findings) = {}
  BY <1>2 DEF Causes
<1>4. QED
  BY <1>2, <1>3 DEF ResetInv

(* Evaluating a rule adds the causes of what it finds.                     *)
LEMMA RuleAddsCauses ==
  ASSUME NEW fs, fs \in Seq(ToSet(fs)), NEW found, IsFiniteSet(found), NEW order \in Orders(found)
  PROVE  /\ fs \o order \in Seq(ToSet(fs \o order))
         /\ \A cause \in Causes(fs \o order) :
              cause \in Causes(fs) \/ \E f \in found : cause = f.cause
         /\ Causes(fs) \subseteq Causes(fs \o order)
         /\ found # {} => \E f \in found : f.cause \in Causes(fs \o order)
<1> DEFINE S == ToSet(fs) \cup found
           both == fs \o order
<1>1. fs \in Seq(S)
  <2>1. \A i \in DOMAIN fs : fs[i] \in S
    BY DEF ToSet
  <2>2. QED
    BY <2>1
<1>2. Cardinality(found) \in Nat
  BY FS_CardinalityType
<1>3. order \in [1 .. Cardinality(found) -> found]
  BY DEF Orders, SetToSeqs
<1>4. order \in Seq(S) /\ DOMAIN order = 1 .. Cardinality(found)
      /\ ToSet(order) \subseteq found
  <2>1. order \in [1 .. Cardinality(found) -> S]
    BY <1>3
  <2>2. order \in Seq(S)
    <3> HIDE DEF S
    <3> QED BY <1>2, <2>1
  <2>3. QED
    BY <1>3, <2>2 DEF ToSet
<1>5. both \in Seq(S) /\ ToSet(both) = ToSet(fs) \cup ToSet(order)
  BY <1>1, <1>4, ConcatToSet
<1> HIDE DEF S, both
<1>6. both \in Seq(ToSet(both))
  <2>1. \A i \in DOMAIN both : both[i] \in ToSet(both)
    BY DEF ToSet
  <2>2. DOMAIN both = 1 .. Len(both) /\ Len(both) \in Nat
    BY <1>5
  <2>3. QED
    BY <1>5, <2>1, <2>2
<1>7. \A g : Causes(g) = {f.cause : f \in ToSet(g)}
  BY DEF Causes, ToSet
<1>8. ASSUME found # {} PROVE \E f \in found : f \in ToSet(both)
  <2>1. Cardinality(found) # 0
    BY <1>8, FS_EmptySet
  <2>2. 1 \in DOMAIN order /\ order[1] \in found
    BY <1>2, <1>3, <1>4, <2>1
  <2>3. order[1] \in ToSet(order)
    BY <2>2 DEF ToSet
  <2>4. QED
    BY <1>5, <2>2, <2>3
<1>9. /\ \A cause \in Causes(both) : cause \in Causes(fs) \/ \E f \in found : cause = f.cause
      /\ Causes(fs) \subseteq Causes(both)
      /\ found # {} => \E f \in found : f.cause \in Causes(both)
  BY <1>4, <1>5, <1>7, <1>8
<1>10. QED
  BY <1>6, <1>9 DEF both

(* Combining and ranking keep every cause.                                 *)
LEMMA EveryCauseIsReported ==
  ASSUME NEW fs, fs \in Seq(ToSet(fs)), NEW since, NEW until
  PROVE  {c.id : c \in ToSet(Ranked(Combine(fs, since, until)))} = Causes(fs)
<1>1. IsFiniteSet(DOMAIN fs)
  <2>1. DOMAIN fs = 1 .. Len(fs) /\ Len(fs) \in Nat
    OBVIOUS
  <2>2. QED
    BY <2>1, FS_Interval
<1>2. IsFiniteSet(Causes(fs))
  <2> DEFINE cause == [i \in DOMAIN fs |-> fs[i].cause]
  <2>1. Causes(fs) = {cause[i] : i \in DOMAIN fs}
    BY DEF Causes
  <2> HIDE DEF cause
  <2>2. QED
    BY <1>1, <2>1, ImageIsFinite
<1>3. IsFiniteSet(Combine(fs, since, until))
  <2> DEFINE merged == [cause \in Causes(fs) |-> MergeGroup(fs, cause, since, until)]
  <2>1. Combine(fs, since, until) = {merged[cause] : cause \in Causes(fs)}
    BY DEF Combine
  <2> HIDE DEF merged
  <2>2. QED
    BY <1>2, <2>1, ImageIsFinite
<1>4. ToSet(Ranked(Combine(fs, since, until))) = Combine(fs, since, until)
  BY <1>3, RankedKeepsAll
<1>5. \A cause : MergeGroup(fs, cause, since, until).id = cause
  BY DEF MergeGroup
<1>6. {c.id : c \in Combine(fs, since, until)} = Causes(fs)
  BY <1>5 DEF Combine
<1>7. QED
  BY <1>4, <1>6

LEMMA NextReset == CorrelationInv /\ ResetInv /\ [Next]_vars => ResetInv'
<1>1. SUFFICES ASSUME CorrelationInv, ResetInv, [Next]_vars PROVE ResetInv'
  OBVIOUS
<1>2. TypeOK /\ report \in Reports
  BY <1>1 DEF CorrelationInv, TypeOK
<1>3. Len(AllRules) = 16 /\ AllRules[5] = "PowerLoss"
      /\ \A n \in 1 .. 16 : AllRules[n] \in ToSet(AllRules) /\ (AllRules[n] = "PowerLoss" <=> n = 5)
  <2>1. DOMAIN AllRules = 1 .. 16
    BY DEF AllRules
  <2>2. QED
    BY <2>1 DEF AllRules, ToSet
<1>4. report' = report /\ Unexplained(report') = Unexplained(report)
  BY <1>1 DEF Next, vars, CorrelateDumps, CorrelateEvent, Correlated, FindOnset, EvaluateRule,
              CombineFindings, Finished
<1>5. CASE CorrelateDumps
  <2>1. \A w \in windows' : w.from = "dump"
    BY <1>5 DEF CorrelateDumps, Window
  <2>2. QED
    BY <1>1, <1>4, <1>5, <2>1 DEF CorrelateDumps, ResetInv
<1>6. CASE CorrelateEvent
  <2> DEFINE e == report.timeline[marker']
  <2>1. /\ marker' \in DOMAIN report.timeline /\ phase = "markers" /\ phase' = "markers"
        /\ UNCHANGED <<evaluated, findings>>
        /\ windows' = IF IsCrashMarker(e) /\ ~Covered(e)
                      THEN windows \cup {Window(e.at, e.kind, marker')} ELSE windows
    BY <1>2, <1>6, ReportTimes DEF CorrelateEvent, TypeOK
  <2>2. ASSUME NEW w \in windows', w.from = "shutdown" PROVE w.item \in Unexplained(report)
    <3>1. CASE w \in windows
      BY <1>1, <2>2, <3>1 DEF ResetInv
    <3>2. CASE w \notin windows
      <4>1. ~Covered(e) /\ w = Window(e.at, e.kind, marker')
        BY <2>1, <2>2, <3>2
      <4>2. e.kind = "shutdown" /\ w.item = marker'
        BY <2>2, <4>1 DEF Window
      <4>3. marker' \in Events(report, {"shutdown"})
        BY <2>1, <4>2 DEF Events
      <4>4. ASSUME NEW c \in Dumps(report, "kernel") PROVE ~Near(report.crashes[c].at, e.at)
        <5>1. Window(report.crashes[c].at, "dump", c) \in windows
          BY <1>1, <2>1 DEF CorrelationInv, Correlation, SystemCrashes
        <5>2. Window(report.crashes[c].at, "dump", c).at = report.crashes[c].at
          BY DEF Window
        <5>3. QED
          BY <4>1, <5>1, <5>2 DEF Covered
      <4>5. QED
        BY <4>2, <4>3, <4>4 DEF Unexplained
    <3>3. QED
      BY <3>1, <3>2
  <2>3. QED
    BY <1>1, <1>4, <2>1, <2>2 DEF ResetInv
<1>7. CASE EvaluateRule
  <2> DEFINE rule == AllRules[evaluated']
             found == Evaluate(rule, report, onset)
  <2>1. /\ evaluated \in 0 .. 15 /\ evaluated' = evaluated + 1 /\ evaluated' \in 1 .. 16
        /\ phase = "rules" /\ phase' = phase /\ windows' = windows
    BY <1>2, <1>3, <1>7 DEF EvaluateRule, TypeOK
  <2>2. PICK order \in Orders(found) : findings' = findings \o order
    BY <1>7 DEF EvaluateRule
  <2>3. rule \in ToSet(AllRules) /\ (rule = "PowerLoss" <=> evaluated' = 5)
    BY <1>3, <2>1
  <2>4. /\ IsFiniteSet(found)
        /\ \A f \in found : f.cause = Root("power-loss") <=> rule = "PowerLoss"
    BY <1>2, <2>3, FindingsAre
  <2>5. evaluated' = 5 => (found = {} <=> Unexplained(report) = {})
    BY <2>3 DEF Evaluate, PowerLoss
  <2> HIDE DEF found, rule
  <2>6. /\ findings' \in Seq(ToSet(findings'))
        /\ \A cause \in Causes(findings') :
             cause \in Causes(findings) \/ \E f \in found : cause = f.cause
        /\ Causes(findings) \subseteq Causes(findings')
        /\ found # {} => \E f \in found : f.cause \in Causes(findings')
    BY <1>1, <2>2, <2>4, RuleAddsCauses DEF ResetInv
  <2>7. Root("power-loss") \in Causes(findings) <=> evaluated >= 5 /\ Unexplained(report) # {}
    BY <1>1 DEF ResetInv
  <2>8. Root("power-loss") \in Causes(findings') <=> evaluated' >= 5 /\ Unexplained(report) # {}
    <3>1. CASE evaluated' = 5
      <4>1. evaluated = 4
        BY <2>1, <3>1
      <4>2. QED
        BY <2>3, <2>4, <2>5, <2>6, <2>7, <3>1, <4>1
    <3>2. CASE evaluated' # 5
      <4>1. evaluated' >= 5 <=> evaluated >= 5
        BY <2>1, <3>2
      <4>2. QED
        BY <2>3, <2>4, <2>6, <2>7, <3>2, <4>1
    <3>3. QED
      BY <3>1, <3>2
  <2>9. QED
    BY <1>1, <1>4, <2>1, <2>6, <2>8 DEF ResetInv
<1>8. CASE CombineFindings
  <2>1. /\ phase' = "done" /\ evaluated' = evaluated /\ evaluated = Len(AllRules)
        /\ UNCHANGED <<windows, findings>>
        /\ causes' = Ranked(Combine(findings, report.since, report.until))
    BY <1>8 DEF CombineFindings
  <2>2. Reported' = {c.id : c \in ToSet(causes')}
    BY DEF Reported, ToSet
  <2>3. Reported' = Causes(findings)
    BY <1>1, <2>1, <2>2, EveryCauseIsReported DEF ResetInv
  <2>4. QED
    BY <1>1, <1>4, <2>1, <2>3 DEF ResetInv
<1>9. CASE Correlated \/ FindOnset \/ Finished \/ UNCHANGED vars
  BY <1>1, <1>4, <1>9 DEF Correlated, FindOnset, Finished, vars, ResetInv, Reported
<1>10. QED
  BY <1>1, <1>5, <1>6, <1>7, <1>8, <1>9 DEF Next

(* For any collection: a window opened for a reset comes with a power loss *)
(* verdict, and such a verdict with a window that no dump opened, near a   *)
(* reset no dump explains.                                                 *)
THEOREM ResetsMatchTheVerdict == Spec => []ResetsAreAccountedFor
<1>1. CorrelationInv /\ ResetInv => ResetsAreAccountedFor
  <2>1. SUFFICES ASSUME CorrelationInv, ResetInv, phase = "done" PROVE ResetsAreAccountedFor
    BY DEF ResetsAreAccountedFor
  <2>2. TypeOK /\ report \in Reports
    BY <2>1 DEF CorrelationInv, TypeOK
  <2>3. Root("power-loss") \in Reported <=> Unexplained(report) # {}
    <3>1. Len(AllRules) = 16
      BY DEF AllRules
    <3>2. QED
      BY <2>1, <3>1 DEF ResetInv
  <2>4. (\E w \in windows : w.from = "shutdown") => Unexplained(report) # {}
    BY <2>1 DEF ResetInv
  <2>5. ASSUME NEW i \in Unexplained(report)
        PROVE  \E w \in windows : w.from # "dump" /\ Near(w.at, report.timeline[i].at)
    <3>1. i \in DOMAIN report.timeline /\ IsCrashMarker(report.timeline[i])
          /\ \A c \in Dumps(report, "kernel") : ~Near(report.crashes[c].at, report.timeline[i].at)
      BY <2>5 DEF Unexplained, Events, IsCrashMarker
    <3>2. DOMAIN report.timeline = 1 .. marker
      BY <2>1, <2>2, ReportTimes DEF CorrelationInv, Correlation
    <3>3. PICK w \in windows : Near(w.at, report.timeline[i].at)
      BY <2>1, <3>1, <3>2 DEF CorrelationInv, Correlation
    <3>4. w.from # "dump"
      BY <2>2, <3>1, <3>3 DEF TypeOK, SystemCrashes
    <3>5. QED
      BY <3>3, <3>4
  <2>6. QED
    BY <2>1, <2>3, <2>4, <2>5 DEF ResetsAreAccountedFor
<1>2. QED
  BY <1>1, InitCorrelation, NextCorrelation, InitReset, NextReset, PTL DEF Spec

(***************************************************************************)
(* The changepoint.  The search is one pass over the times in order, with  *)
(* the best split so far; rises are compared as fractions.                 *)
(***************************************************************************)
Fractions == [num : Int, den : Nat \ {0}]

(* A comparison survives multiplication by a positive factor.              *)
LEMMA ScalingKeepsOrder ==
  \A x, y \in Int : \A z \in Nat \ {0} : x * z > y * z <=> x > y
<1> SUFFICES ASSUME NEW x \in Int, NEW y \in Int, NEW z \in Nat \ {0}
             PROVE  x * z > y * z <=> x > y
  OBVIOUS
<1>1. ASSUME x > y PROVE x * z > y * z
  BY <1>1
<1>2. ASSUME ~(x > y) PROVE ~(x * z > y * z)
  BY <1>2
<1>3. QED
  BY <1>1, <1>2

(* Comparing fractions by their cross products is a strict weak order.     *)
LEMMA SteeperOrders ==
  /\ \A r, s \in Fractions : Steeper(r, s) => ~Steeper(s, r)
  /\ \A q, r, s \in Fractions : Steeper(r, s) => Steeper(r, q) \/ Steeper(q, s)
<1>1. \A r \in Fractions : r.num \in Int /\ r.den \in Nat \ {0}
  BY DEF Fractions
<1>2. ASSUME NEW r \in Fractions, NEW s \in Fractions, Steeper(r, s) PROVE ~Steeper(s, r)
  <2> DEFINE a == r.num * s.den
             c == s.num * r.den
  <2>1. a \in Int /\ c \in Int
    BY <1>1
  <2>2. a > c
    BY <1>2 DEF Steeper
  <2> HIDE DEF a, c
  <2>3. ~(c > a)
    BY <2>1, <2>2
  <2>4. QED
    BY <2>3 DEF Steeper, a, c
<1>3. ASSUME NEW q \in Fractions, NEW r \in Fractions, NEW s \in Fractions,
             ~Steeper(r, q), ~Steeper(q, s)
      PROVE  ~Steeper(r, s)
  <2>1. PICK a \in Int, c \in Int, e \in Int : a = r.num /\ c = s.num /\ e = q.num
    BY <1>1
  <2>2. PICK b \in Nat \ {0}, d \in Nat \ {0}, f \in Nat \ {0} : b = r.den /\ d = s.den /\ f = q.den
    BY <1>1
  <2>3. ~(a * f > e * b) /\ ~(e * d > c * f)
    BY <1>3, <2>1, <2>2 DEF Steeper
  <2>4. ~((a * f) * d > (e * b) * d) /\ ~((e * d) * b > (c * f) * b)
    <3>1. a * f \in Int /\ e * b \in Int /\ e * d \in Int /\ c * f \in Int
      OBVIOUS
    <3> DEFINE af == a * f
               eb == e * b
               ed == e * d
               cf == c * f
    <3>2. ~(af > eb) /\ ~(ed > cf)
      BY <2>3
    <3>3. af \in Int /\ eb \in Int /\ ed \in Int /\ cf \in Int
      BY <3>1
    <3> HIDE DEF af, eb, ed, cf
    <3>4. ~(af * d > eb * d) /\ ~(ed * b > cf * b)
      BY <3>2, <3>3, ScalingKeepsOrder
    <3>5. QED
      BY <3>4 DEF af, eb, ed, cf
  <2>5. (a * f) * d = (a * d) * f /\ (e * b) * d = (e * d) * b /\ (c * f) * b = (c * b) * f
    OBVIOUS
  <2> DEFINE x == (a * d) * f
             y == (e * d) * b
             z == (c * b) * f
             ad == a * d
             cb == c * b
  <2>6. x \in Int /\ y \in Int /\ z \in Int /\ ad \in Int /\ cb \in Int
    OBVIOUS
  <2>7. ~(x > y) /\ ~(y > z)
    BY <2>4, <2>5
  <2>8. x = ad * f /\ z = cb * f
    OBVIOUS
  <2> HIDE DEF x, y, z, ad, cb
  <2>9. ~(x > z)
    BY <2>6, <2>7
  <2>10. ~(ad > cb)
    BY <2>6, <2>8, <2>9, ScalingKeepsOrder
  <2>11. QED
    BY <2>1, <2>2, <2>10 DEF Steeper, ad, cb
<1>4. QED
  BY <1>2, <1>3

Split(at, rise) == [at |-> at, rise |-> rise]

(* b is the best of the splits before the first k crashes, and the earliest *)
(* of its rise; it is the base when none is better than that.              *)
SplitSoFar(b, k, base, t, rise, E) ==
  /\ \/ b = base
     \/ \E j \in E : j <= k /\ b = Split(t[j], rise[j]) /\ Steeper(rise[j], base.rise)
  /\ \A i \in E : i <= k => /\ ~Steeper(rise[i], b.rise)
                            /\ t[i] < b.at => b = base \/ Steeper(b.rise, rise[i])

(* The pass keeps the best split, by induction on the crashes seen.        *)
LEMMA Sweep ==
  ASSUME NEW n \in Nat, NEW t \in [1 .. n -> Int], NEW rise \in [1 .. n -> Fractions],
         \A i, j \in 1 .. n : i <= j => t[i] <= t[j],
         NEW E \in SUBSET (1 .. n), NEW base \in [at : Int, rise : Fractions], NEW best,
         best[0] = base,
         \A k \in 1 .. n :
           best[k] = IF k \in E /\ Steeper(rise[k], best[k - 1].rise)
                     THEN Split(t[k], rise[k]) ELSE best[k - 1]
  PROVE  SplitSoFar(best[n], n, base, t, rise, E)
<1> DEFINE So(k) == SplitSoFar(best[k], k, base, t, rise, E)
           Bad == {k \in 0 .. n : ~So(k)}
<1>1. base.rise \in Fractions /\ \A r \in Fractions : ~Steeper(r, r)
  BY SteeperOrders
<1>2. So(0)
  BY <1>1 DEF SplitSoFar
<1>3. ASSUME NEW k \in 1 .. n, So(k - 1) PROVE So(k)
  <2> DEFINE old == best[k - 1]
             new == best[k]
  <2>1. /\ old = base
           \/ \E j \in E : j <= k - 1 /\ old = Split(t[j], rise[j]) /\ Steeper(rise[j], base.rise)
        /\ \A i \in E : i <= k - 1 =>
             /\ ~Steeper(rise[i], old.rise)
             /\ t[i] < old.at => old = base \/ Steeper(old.rise, rise[i])
    BY <1>3 DEF SplitSoFar
  <2>2. new = IF k \in E /\ Steeper(rise[k], old.rise) THEN Split(t[k], rise[k]) ELSE old
    OBVIOUS
  <2> HIDE DEF old, new
  <2>3. /\ \A i \in E : i \in 1 .. n /\ rise[i] \in Fractions /\ t[i] \in Int
        /\ old.rise \in Fractions
        /\ old.at \in Int
    BY <1>1, <2>1 DEF Split
  <2>4. CASE k \in E /\ Steeper(rise[k], old.rise)
    <3>1. new.at = t[k] /\ new.rise = rise[k] /\ new = Split(t[k], rise[k])
      BY <2>2, <2>4 DEF Split
    <3>2. Steeper(rise[k], base.rise)
      <4>1. CASE old = base
        BY <2>4, <4>1
      <4>2. CASE old # base
        <5>1. Steeper(old.rise, base.rise)
          BY <2>1, <4>2 DEF Split
        <5>2. Steeper(rise[k], base.rise) \/ Steeper(base.rise, old.rise)
          BY <1>1, <2>3, <2>4, SteeperOrders
        <5>3. QED
          BY <1>1, <2>3, <5>1, <5>2, SteeperOrders
      <4>3. QED
        BY <4>1, <4>2
    <3>3. ASSUME NEW i \in E, i <= k, i # k PROVE Steeper(rise[k], rise[i]) /\ ~Steeper(rise[i], rise[k])
      <4>1. i <= k - 1
        BY <2>3, <3>3
      <4>2. ~Steeper(rise[i], old.rise)
        BY <2>1, <4>1
      <4>3. Steeper(rise[k], rise[i]) \/ Steeper(rise[i], old.rise)
        BY <2>3, <2>4, SteeperOrders
      <4>4. QED
        BY <2>3, <2>4, <4>2, <4>3, SteeperOrders
    <3>4. ~Steeper(rise[k], rise[k]) /\ ~(t[k] < t[k])
      BY <1>1, <2>3, <2>4
    <3>5. SplitSoFar(new, k, base, t, rise, E)
      <4>1. \E j \in E : j <= k /\ new = Split(t[j], rise[j]) /\ Steeper(rise[j], base.rise)
        BY <2>3, <2>4, <3>1, <3>2
      <4>2. ASSUME NEW i \in E, i <= k
            PROVE  /\ ~Steeper(rise[i], new.rise)
                   /\ t[i] < new.at => Steeper(new.rise, rise[i])
        BY <3>1, <3>3, <3>4, <4>2
      <4>3. QED
        BY <4>1, <4>2 DEF SplitSoFar
    <3>6. QED
      BY <3>5 DEF new
  <2>5. CASE ~(k \in E /\ Steeper(rise[k], old.rise))
    <3>1. new = old
      BY <2>2, <2>5
    <3>2. \A i \in E : i <= k => i <= k - 1 \/ i = k
      BY <2>3
    <3>3. k \in E => ~(t[k] < old.at) \/ old = base
      <4>1. SUFFICES ASSUME k \in E, old # base PROVE ~(t[k] < old.at)
        OBVIOUS
      <4>2. PICK j \in E : j <= k - 1 /\ old = Split(t[j], rise[j])
        BY <2>1, <4>1
      <4>3. t[j] <= t[k] /\ old.at = t[j] /\ t[j] \in Int /\ t[k] \in Int
        BY <2>3, <4>1, <4>2 DEF Split
      <4>4. QED
        BY <4>3
    <3>4. SplitSoFar(old, k, base, t, rise, E)
      <4>1. \/ old = base
            \/ \E j \in E : j <= k /\ old = Split(t[j], rise[j]) /\ Steeper(rise[j], base.rise)
        BY <2>1, <2>3
      <4>2. ASSUME NEW i \in E, i <= k
            PROVE  /\ ~Steeper(rise[i], old.rise)
                   /\ t[i] < old.at => old = base \/ Steeper(old.rise, rise[i])
        BY <2>1, <2>5, <3>2, <3>3, <4>2
      <4>3. QED
        BY <4>1, <4>2 DEF SplitSoFar
    <3>5. QED
      BY <3>1, <3>4 DEF new
  <2>6. QED
    BY <2>4, <2>5
<1>4. Bad = {}
  <2> SUFFICES ASSUME Bad # {} PROVE FALSE
    OBVIOUS
  <2>1. Bad \in SUBSET Nat
    OBVIOUS
  <2> DEFINE m == Min(Bad)
  <2>2. m \in Bad /\ \A k \in Bad : m <= k
    <3> HIDE DEF Bad
    <3> QED BY <2>1, MinIsLeast
  <2> HIDE DEF m, So
  <2>3. m \in 1 .. n /\ ~So(m)
    BY <1>2, <2>2
  <2>4. m - 1 \in 0 .. n /\ ~(m <= m - 1)
    BY <2>3
  <2>5. So(m - 1)
    BY <2>2, <2>4
  <2>6. QED
    BY <1>3, <2>3, <2>5
<1>5. QED
  BY <1>4

(* Spans are at least a day, so that their product divides.                *)
LEMMA SpansMultiply == \A x, y \in Nat \ {0} : x * y \in Nat \ {0}
<1> SUFFICES ASSUME NEW x \in Nat \ {0}, NEW y \in Nat \ {0} PROVE x * y \in Nat \ {0}
  OBVIOUS
<1>1. x * y > 0 * y
  BY ScalingKeepsOrder
<1>2. QED
  BY <1>1

(* A rise is a fraction, and before the first crash it is positive.        *)
LEMMA RisesAreFractions ==
  ASSUME NEW t \in Seq(Int), NEW i \in 1 .. Len(t)
  PROVE  /\ Rise(t, i) \in Fractions
         /\ i = 1 => Rise(t, i).num > 0
<1> DEFINE n == Len(t)
           before == Most(t[i] - t[1], Day)
           after == Most(t[n] - t[i], Day)
<1>1. n \in Nat \ {0} /\ t[i] \in Int /\ t[1] \in Int /\ t[n] \in Int
  OBVIOUS
<1>2. Day \in Nat \ {0}
  BY ReportsAreCollections
<1>3. before \in Nat \ {0} /\ after \in Nat \ {0}
  BY <1>1, <1>2 DEF Most
<1>4. Rise(t, i) = [num |-> (n - i + 1) * before - (i - 1) * after, den |-> before * after]
  BY DEF Rise
<1> HIDE DEF n, before, after
<1>5. before * after \in Nat \ {0}
  BY <1>3, SpansMultiply
<1>6. (n - i + 1) * before \in Int /\ (i - 1) * after \in Int
  BY <1>1, <1>3
<1>7. (n - i + 1) * before - (i - 1) * after \in Int
  BY <1>6
<1>8. i = 1 => (n - i + 1) * before - (i - 1) * after > 0
  <2> SUFFICES ASSUME i = 1 PROVE (n - i + 1) * before - (i - 1) * after > 0
    OBVIOUS
  <2>1. n - i + 1 = n /\ (i - 1) * after = 0
    BY <1>1, <1>3
  <2>2. n * before \in Nat \ {0}
    BY <1>1, <1>3, SpansMultiply
  <2>3. QED
    BY <2>1, <2>2
<1>9. QED
  BY <1>4, <1>5, <1>7, <1>8 DEF Fractions

(* No split of the crashes t is better than the one before the j-th.       *)
Sharpest(t, j) ==
  \A i \in 1 .. Len(t) : t[Len(t)] > t[i] =>
    /\ t[Len(t)] > t[j]
    /\ ~Steeper(Rise(t, i), Rise(t, j))
    /\ t[i] < t[j] => Steeper(Rise(t, j), Rise(t, i))

(* The fold of BestSplit is the pass of Sweep.                             *)
LEMMA BestSplitIsSharpest ==
  ASSUME NEW t \in Seq(Int), Len(t) # 0,
         \A i, j \in 1 .. Len(t) : i <= j => t[i] <= t[j]
  PROVE  \E j \in 1 .. Len(t) : BestSplit(t) = t[j] /\ Sharpest(t, j)
<1> DEFINE n == Len(t)
           base == [at |-> t[1], rise |-> [num |-> 0, den |-> 1]]
           A == [at : Int, rise : Fractions]
           E == {i \in 1 .. n : t[n] > t[i]}
           rise == [i \in 1 .. n |-> Rise(t, i)]
           Better(k, b) == IF t[n] > t[k] /\ Steeper(Rise(t, k), b.rise)
                           THEN [at |-> t[k], rise |-> Rise(t, k)] ELSE b
           Folds(iter) == iter = [s \in SUBSET (DOMAIN [i \in DOMAIN t |-> i]) |->
                                    IF s = {} THEN base
                                    ELSE Better([i \in DOMAIN t |-> i][Max(s)], iter[s \ {Max(s)}])]
           iter == CHOOSE iter : Folds(iter)
<1>1. n \in Nat \ {0} /\ t \in [1 .. n -> Int]
  OBVIOUS
<1>2. BestSplit(t) = iter[DOMAIN [i \in DOMAIN t |-> i]].at
  BY DEF BestSplit, FoldLeftDomain, FoldLeft, MapThenFoldSet
<1>3. DOMAIN t = 1 .. n /\ DOMAIN [i \in DOMAIN t |-> i] = 1 .. n
  OBVIOUS
<1>4. \A s \in SUBSET (1 .. n) : s # {} => Max(s) \in s
  <2> HIDE DEF n
  <2> SUFFICES ASSUME NEW s \in SUBSET (1 .. n), s # {} PROVE Max(s) \in s
    OBVIOUS
  <2>1. s \in SUBSET (0 .. n) /\ n \in Nat
    BY <1>1
  <2>2. QED
    BY <2>1, MaxIsGreatest
<1>5. rise \in [1 .. n -> Fractions] /\ \A i \in 1 .. n : rise[i] = Rise(t, i)
  BY RisesAreFractions
<1>6. base \in A
  BY <1>1 DEF Fractions
<1>7. \A k \in 1 .. n, b \in A : Better(k, b) \in A
  <2> SUFFICES ASSUME NEW k \in 1 .. n, NEW b \in A PROVE Better(k, b) \in A
    OBVIOUS
  <2>1. t[k] \in Int /\ Rise(t, k) \in Fractions
    BY <1>1, <1>5
  <2>2. [at |-> t[k], rise |-> Rise(t, k)] \in A
    BY <2>1
  <2>3. QED
    BY <2>2
<1> HIDE DEF n, base, A, E, rise, Better
<1>8. \E f \in [SUBSET (1 .. n) -> A] : \A s \in SUBSET (1 .. n) :
        f[s] = IF s = {} THEN base ELSE Better(Max(s), f[s \ {Max(s)}])
  <2> DEFINE op == [k \in 1 .. n |-> [b \in A |-> Better(k, b)]]
             pick == [s \in SUBSET (1 .. n) |-> Max(s)]
  <2>1. op \in [1 .. n -> [A -> A]]
    BY <1>7
  <2>2. \A s \in SUBSET (1 .. n) : s # {} => pick[s] \in s
    BY <1>4
  <2>3. IsFiniteSet(1 .. n)
    BY <1>1, FS_Interval
  <2>4. HasFold(1 .. n, A, base, op, pick)
    <3> HIDE DEF op, pick
    <3> QED BY <1>6, <2>1, <2>2, <2>3, FoldExists
  <2>5. PICK f \in [SUBSET (1 .. n) -> A] : \A s \in SUBSET (1 .. n) :
          f[s] = IF s = {} THEN base ELSE op[pick[s]][f[s \ {pick[s]}]]
    <3> HIDE DEF op, pick
    <3> QED BY <2>4 DEF HasFold, FoldOf
  <2>6. ASSUME NEW s \in SUBSET (1 .. n), s # {}
        PROVE  f[s] = Better(Max(s), f[s \ {Max(s)}])
    <3>1. Max(s) \in 1 .. n /\ f[s \ {Max(s)}] \in A /\ pick[s] = Max(s)
      BY <1>4, <2>6
    <3> HIDE DEF pick
    <3>2. f[s] = op[Max(s)][f[s \ {Max(s)}]]
      BY <2>5, <2>6, <3>1
    <3>3. QED
      BY <3>1, <3>2
  <2>7. QED
    BY <2>5, <2>6
<1>9. Folds(iter)
  <2>1. PICK f \in [SUBSET (1 .. n) -> A] : \A s \in SUBSET (1 .. n) :
          f[s] = IF s = {} THEN base ELSE Better(Max(s), f[s \ {Max(s)}])
    BY <1>8
  <2>2. \A s \in SUBSET (1 .. n) : s # {} => [i \in DOMAIN t |-> i][Max(s)] = Max(s)
    BY <1>3, <1>4
  <2>3. f = [s \in SUBSET (1 .. n) |->
               IF s = {} THEN base
               ELSE Better([i \in DOMAIN t |-> i][Max(s)], f[s \ {Max(s)}])]
    BY <2>1, <2>2
  <2>4. Folds(f)
    BY <1>3, <2>3
  <2>5. QED
    <3> HIDE DEF Folds
    <3> QED BY <2>4
<1>10. \A s \in SUBSET (1 .. n) :
         iter[s] = IF s = {} THEN base ELSE Better(Max(s), iter[s \ {Max(s)}])
  <2> HIDE DEF iter
  <2>1. iter = [s \in SUBSET (1 .. n) |->
                  IF s = {} THEN base
                  ELSE Better([i \in DOMAIN t |-> i][Max(s)], iter[s \ {Max(s)}])]
    BY <1>3, <1>9
  <2>2. \A s \in SUBSET (1 .. n) : s # {} => [i \in DOMAIN t |-> i][Max(s)] = Max(s)
    BY <1>3, <1>4
  <2>3. QED
    BY <2>1, <2>2
<1> HIDE DEF iter
<1> DEFINE best == [k \in 0 .. n |-> iter[1 .. k]]
<1>11. best[0] = base
  <2>1. best[0] = iter[1 .. 0] /\ 1 .. 0 = {}
    BY <1>1
  <2>2. QED
    BY <1>10, <2>1
<1>12. ASSUME NEW k \in 1 .. n
       PROVE  best[k] = IF k \in E /\ Steeper(rise[k], best[k - 1].rise)
                        THEN Split(t[k], rise[k]) ELSE best[k - 1]
  <2>1. 1 .. k \in SUBSET (1 .. n) /\ 1 .. k # {} /\ k \in Nat /\ 1 .. k \in SUBSET (0 .. k)
    <3>1. k \in Nat /\ n \in Nat /\ k <= n /\ k \in 1 .. k
      BY <1>1
    <3>2. \A i \in 1 .. k : i \in 1 .. n /\ i \in 0 .. k
      BY <3>1
    <3>3. QED
      BY <3>1, <3>2
  <2>2. Max(1 .. k) = k
    <3>1. Max(1 .. k) \in 1 .. k /\ \A i \in 1 .. k : i <= Max(1 .. k)
      BY <2>1, MaxIsGreatest
    <3>2. k \in 1 .. k
      BY <2>1
    <3>3. QED
      BY <2>1, <3>1, <3>2
  <2>3. (1 .. k) \ {k} = 1 .. (k - 1)
    BY <2>1
  <2>4. iter[1 .. k] = Better(k, iter[1 .. (k - 1)])
    BY <1>10, <2>1, <2>2, <2>3
  <2>5. best[k] = iter[1 .. k] /\ best[k - 1] = iter[1 .. (k - 1)]
    BY <1>1
  <2>6. k \in E <=> t[n] > t[k]
    BY DEF E
  <2> HIDE DEF best
  <2>7. QED
    BY <1>5, <2>4, <2>5, <2>6 DEF Better, Split
<1>13. BestSplit(t) = best[n].at
  BY <1>1, <1>2, <1>3
<1> HIDE DEF best
<1>14. SplitSoFar(best[n], n, base, t, rise, E)
  <2>1. base \in [at : Int, rise : Fractions]
    BY <1>6 DEF A
  <2>2. E \in SUBSET (1 .. n) /\ \A i, j \in 1 .. n : i <= j => t[i] <= t[j]
    BY DEF E, n
  <2>3. \A k \in 1 .. n : best[k] = IF k \in E /\ Steeper(rise[k], best[k - 1].rise)
                                    THEN Split(t[k], rise[k]) ELSE best[k - 1]
    BY <1>12
  <2>4. n \in Nat
    BY <1>1
  <2>5. QED
    BY <1>1, <1>5, <1>11, <2>1, <2>2, <2>3, <2>4, Sweep
<1>15. \A i \in 1 .. n : i \in E <=> t[n] > t[i]
  BY DEF E
<1>16. CASE E = {}
  <2>1. best[n] = base
    BY <1>14, <1>16 DEF SplitSoFar
  <2>2. BestSplit(t) = t[1] /\ 1 \in 1 .. n
    BY <1>1, <1>13, <2>1 DEF base
  <2>3. Sharpest(t, 1)
    BY <1>15, <1>16 DEF Sharpest, n
  <2>4. QED
    BY <2>2, <2>3 DEF n
<1>17. CASE E # {}
  <2>1. 1 \in E
    <3>1. PICK i \in 1 .. n : t[n] > t[i]
      BY <1>17 DEF E
    <3>2. 1 \in 1 .. n /\ n \in 1 .. n /\ 1 <= i
      BY <1>1
    <3>3. t[1] <= t[i] /\ t[1] \in Int /\ t[i] \in Int /\ t[n] \in Int
      BY <1>1, <3>2 DEF n
    <3>4. t[n] > t[1]
      BY <3>1, <3>3
    <3>5. QED
      BY <1>15, <3>2, <3>4
  <2>2. Steeper(rise[1], base.rise)
    <3>1. 1 \in 1 .. n
      BY <1>1
    <3>2. rise[1].num > 0 /\ rise[1].num \in Int /\ rise[1].den \in Nat \ {0}
      <4>1. Rise(t, 1) \in Fractions /\ Rise(t, 1).num > 0
        BY <3>1, RisesAreFractions DEF n
      <4>2. QED
        BY <1>5, <3>1, <4>1 DEF Fractions
    <3>3. base.rise.num = 0 /\ base.rise.den = 1
      BY DEF base
    <3>4. rise[1].num * 1 = rise[1].num /\ 0 * rise[1].den = 0
      BY <3>2
    <3>5. QED
      BY <3>2, <3>3, <3>4 DEF Steeper
  <2>3. best[n].rise # base.rise
    BY <1>1, <1>14, <2>1, <2>2 DEF SplitSoFar
  <2>4. PICK j \in E : best[n] = Split(t[j], rise[j])
    BY <1>14, <2>3 DEF SplitSoFar
  <2>5. best[n].at = t[j] /\ best[n].rise = rise[j] /\ j \in 1 .. n /\ t[n] > t[j]
    BY <2>4 DEF Split, E
  <2>6. ASSUME NEW i \in 1 .. n, t[n] > t[i]
        PROVE  ~Steeper(Rise(t, i), Rise(t, j)) /\ (t[i] < t[j] => Steeper(Rise(t, j), Rise(t, i)))
    <3>1. i \in E /\ i <= n
      BY <1>1, <1>15, <2>6
    <3>2. ~Steeper(rise[i], rise[j]) /\ (t[i] < t[j] => Steeper(rise[j], rise[i]))
      BY <1>14, <2>3, <2>5, <3>1 DEF SplitSoFar
    <3>3. QED
      BY <1>5, <2>5, <3>2
  <2>7. Sharpest(t, j)
    BY <2>5, <2>6 DEF Sharpest, n
  <2>8. QED
    BY <1>13, <2>5, <2>7 DEF n
<1>18. QED
  BY <1>16, <1>17

(* One of finitely many crashes is the last.                               *)
LEMMA LastCrash ==
  ASSUME NEW D, IsFiniteSet(D), D # {}, \A w \in D : w.at \in Int
  PROVE  \E d \in D : \A w \in D : w.at <= d.at
<1> DEFINE Q == {s \in SUBSET D : s # {} => \E d \in s : \A w \in s : w.at <= d.at}
<1>1. ASSUME NEW s \in SUBSET D, \A x \in s : s \ {x} \in Q PROVE s \in Q
  <2>1. SUFFICES ASSUME s # {} PROVE \E d \in s : \A w \in s : w.at <= d.at
    OBVIOUS
  <2>2. PICK x \in s : TRUE
    BY <2>1
  <2>3. CASE s \ {x} = {}
    <3>1. \A w \in s : w.at <= x.at
      BY <2>3
    <3>2. QED
      BY <3>1
  <2>4. CASE s \ {x} # {}
    <3>1. PICK d \in s \ {x} : \A w \in s \ {x} : w.at <= d.at
      BY <1>1, <2>4
    <3>2. x.at \in Int /\ d.at \in Int /\ \A w \in s : w.at \in Int /\ (w = x \/ w.at <= d.at)
      BY <3>1
    <3>3. CASE x.at <= d.at
      BY <3>2, <3>3
    <3>4. CASE ~(x.at <= d.at)
      <4>1. \A w \in s : w.at <= x.at
        BY <3>2, <3>4
      <4>2. QED
        BY <4>1
    <3>5. QED
      BY <3>3, <3>4
  <2>5. QED
    BY <2>3, <2>4
<1>2. Q = SUBSET D
  <2>1. Q \in SUBSET SUBSET D
    OBVIOUS
  <2> HIDE DEF Q
  <2>2. QED
    BY <1>1, <2>1, EverySubset
<1>3. QED
  BY <1>2

WindowsAreTimed == IsFiniteSet(windows) /\ \A w \in windows : w.at \in Int

(* What the counts of the crashes before a time, and up to it, are.        *)
LEMMA Counts ==
  ASSUME WindowsAreTimed
  PROVE  /\ Cardinality(windows) \in Nat
         /\ \A t : Cardinality(Earlier(t)) \in Nat /\ IsFiniteSet(Earlier(t))
         /\ \A t : Cardinality(UpTo(t)) \in Nat /\ IsFiniteSet(UpTo(t))
         /\ \A t : Cardinality(UpTo(t)) <= Cardinality(windows)
         /\ \A t, u \in Int : t < u => Cardinality(UpTo(t)) <= Cardinality(Earlier(u))
         /\ \A w \in windows : Cardinality(Earlier(w.at)) < Cardinality(UpTo(w.at))
<1>1. \A t : Earlier(t) \in SUBSET windows /\ UpTo(t) \in SUBSET windows
  BY DEF Earlier, UpTo
<1>2. \A s \in SUBSET windows :
        IsFiniteSet(s) /\ Cardinality(s) \in Nat /\ Cardinality(s) <= Cardinality(windows)
  BY FS_Subset, FS_CardinalityType DEF WindowsAreTimed
<1>3. \A t, u \in Int : t < u => UpTo(t) \in SUBSET Earlier(u)
  BY DEF WindowsAreTimed, Earlier, UpTo
<1>4. \A t, u \in Int : t < u => Cardinality(UpTo(t)) <= Cardinality(Earlier(u))
  BY <1>1, <1>2, <1>3, FS_Subset
<1>5. ASSUME NEW w \in windows PROVE Cardinality(Earlier(w.at)) < Cardinality(UpTo(w.at))
  <2>1. w \in UpTo(w.at) /\ w \notin Earlier(w.at) /\ Earlier(w.at) \in SUBSET UpTo(w.at)
    BY DEF WindowsAreTimed, Earlier, UpTo
  <2>2. /\ IsFiniteSet(UpTo(w.at)) /\ Cardinality(UpTo(w.at)) \in Nat
        /\ Cardinality(Earlier(w.at)) \in Nat
    BY <1>1, <1>2
  <2>3. Cardinality(Earlier(w.at)) <= Cardinality(UpTo(w.at))
    BY <2>1, <2>2, FS_Subset
  <2>4. Cardinality(Earlier(w.at)) # Cardinality(UpTo(w.at))
    BY <2>1, <2>2, FS_Subset
  <2>5. QED
    BY <2>2, <2>3, <2>4
<1>6. QED
  BY <1>1, <1>2, <1>4, <1>5

(* The k-th crash of the log has a time.                                   *)
LEMMA KthCrash ==
  ASSUME WindowsAreTimed, NEW k \in 1 .. Cardinality(windows)
  PROVE  \E t \in {w.at : w \in windows} :
           Cardinality(Earlier(t)) < k /\ k <= Cardinality(UpTo(t))
<1> DEFINE n == Cardinality(windows)
           enough == {Cardinality(UpTo(w.at)) : w \in {v \in windows : k <= Cardinality(UpTo(v.at))}}
<1>1. n \in Nat /\ k \in Nat /\ 1 <= k /\ k <= n
  BY Counts
<1>2. windows # {}
  BY <1>1, FS_EmptySet
<1>3. PICK last \in windows : \A w \in windows : w.at <= last.at
  BY <1>2, LastCrash DEF WindowsAreTimed
<1>4. UpTo(last.at) = windows
  BY <1>3 DEF UpTo
<1>5. enough \in SUBSET Nat /\ enough # {}
  BY <1>1, <1>4, Counts
<1>6. Min(enough) \in enough /\ \A m \in enough : Min(enough) <= m
  <2> HIDE DEF enough
  <2> QED BY <1>5, MinIsLeast
<1>7. PICK w \in windows : k <= Cardinality(UpTo(w.at)) /\ Cardinality(UpTo(w.at)) = Min(enough)
  BY <1>6
<1>8. \A v \in windows : k <= Cardinality(UpTo(v.at)) => Cardinality(UpTo(w.at)) <= Cardinality(UpTo(v.at))
  BY <1>6, <1>7
<1> HIDE DEF enough
<1>9. Cardinality(Earlier(w.at)) < k
  <2>1. SUFFICES ASSUME k <= Cardinality(Earlier(w.at)) PROVE FALSE
    BY <1>1, Counts
  <2>2. Earlier(w.at) # {}
    BY <1>1, <2>1, FS_EmptySet
  <2>3. Earlier(w.at) \in SUBSET windows /\ \A v \in Earlier(w.at) : v.at \in Int /\ v.at < w.at
    BY DEF Earlier, WindowsAreTimed
  <2>4. PICK v \in Earlier(w.at) : \A u \in Earlier(w.at) : u.at <= v.at
    BY <2>2, <2>3, Counts, LastCrash
  <2>5. Earlier(w.at) \in SUBSET UpTo(v.at)
    BY <2>3, <2>4 DEF UpTo
  <2>6. Cardinality(Earlier(w.at)) <= Cardinality(UpTo(v.at))
    BY <2>5, Counts, FS_Subset
  <2>7. v \in windows /\ w.at \in Int /\ v.at \in Int /\ v.at < w.at
    BY <2>3 DEF WindowsAreTimed
  <2>8. Cardinality(UpTo(v.at)) <= Cardinality(Earlier(w.at))
    BY <2>7, Counts
  <2>9. k <= Cardinality(UpTo(v.at))
    BY <1>1, <2>1, <2>6, Counts
  <2>10. Cardinality(UpTo(w.at)) <= Cardinality(UpTo(v.at))
    BY <1>8, <2>7, <2>9
  <2>11. Cardinality(Earlier(w.at)) < Cardinality(UpTo(w.at))
    BY Counts
  <2>12. /\ Cardinality(Earlier(w.at)) \in Nat /\ Cardinality(UpTo(w.at)) \in Nat
         /\ Cardinality(UpTo(v.at)) \in Nat
    BY Counts
  <2>13. QED
    BY <2>8, <2>10, <2>11, <2>12
<1>10. QED
  BY <1>7, <1>9

(* Times holds the time of every crash, in order, the first crash at a     *)
(* time right after the crashes before it.                                 *)
LEMMA TimesAreOrdered ==
  ASSUME WindowsAreTimed
  PROVE  /\ Times \in Seq(Int) /\ Len(Times) = Cardinality(windows)
         /\ \A k \in 1 .. Cardinality(windows) :
              /\ \E w \in windows : Times[k] = w.at
              /\ Cardinality(Earlier(Times[k])) < k
              /\ k <= Cardinality(UpTo(Times[k]))
         /\ \A i, j \in 1 .. Cardinality(windows) : i <= j => Times[i] <= Times[j]
         /\ \A w \in windows :
              /\ Cardinality(Earlier(w.at)) + 1 \in 1 .. Cardinality(windows)
              /\ Times[Cardinality(Earlier(w.at)) + 1] = w.at
<1> DEFINE n == Cardinality(windows)
           T == Times
           Kth(k, t) == Cardinality(Earlier(t)) < k /\ k <= Cardinality(UpTo(t))
<1>1. n \in Nat
  BY Counts
<1>2. \A k \in 1 .. n : T[k] = CHOOSE t \in {w.at : w \in windows} : Kth(k, t)
  BY DEF Times
<1>3. \A k \in 1 .. n : \E t \in {w.at : w \in windows} : Kth(k, t)
  BY KthCrash
<1>4. \A k \in 1 .. n : T[k] \in {w.at : w \in windows} /\ Kth(k, T[k])
  <2> HIDE DEF T, n, Kth
  <2> QED BY <1>2, <1>3
<1>5. \A t \in {w.at : w \in windows} : t \in Int
  BY DEF WindowsAreTimed
<1>6. T = [k \in 1 .. n |-> T[k]]
  BY DEF Times
<1>7. T \in [1 .. n -> Int]
  <2> HIDE DEF T
  <2> QED BY <1>4, <1>5, <1>6
<1>8. T \in Seq(Int) /\ Len(T) = n
  <2> HIDE DEF T, n
  <2> QED BY <1>1, <1>7
<1> HIDE DEF T, n
<1>9. ASSUME NEW i \in 1 .. n, NEW j \in 1 .. n, i <= j PROVE T[i] <= T[j]
  <2>1. SUFFICES ASSUME T[j] < T[i] PROVE FALSE
    BY <1>7
  <2>2. Cardinality(UpTo(T[j])) <= Cardinality(Earlier(T[i]))
    BY <1>7, <2>1, Counts
  <2>3. Cardinality(Earlier(T[i])) < i /\ j <= Cardinality(UpTo(T[j]))
    BY <1>4
  <2>4. Cardinality(Earlier(T[i])) \in Nat /\ Cardinality(UpTo(T[j])) \in Nat /\ i \in Nat /\ j \in Nat
    BY <1>1, Counts
  <2>5. QED
    BY <1>9, <2>2, <2>3, <2>4
<1>10. ASSUME NEW w \in windows
       PROVE  /\ Cardinality(Earlier(w.at)) + 1 \in 1 .. n
              /\ T[Cardinality(Earlier(w.at)) + 1] = w.at
  <2> DEFINE before == Cardinality(Earlier(w.at))
             upto == Cardinality(UpTo(w.at))
             k == before + 1
  <2>1. before \in Nat /\ upto \in Nat /\ before < upto /\ upto <= n
    BY Counts DEF n
  <2> HIDE DEF before, upto
  <2>2. k \in 1 .. n
    BY <1>1, <2>1
  <2>3. Cardinality(Earlier(T[k])) < k /\ k <= Cardinality(UpTo(T[k]))
    BY <1>4, <2>2
  <2>4. w.at \in Int /\ T[k] \in Int
    BY <1>7, <2>2 DEF WindowsAreTimed
  <2>5. Cardinality(Earlier(T[k])) \in Nat /\ Cardinality(UpTo(T[k])) \in Nat
    BY Counts
  <2>6. ~(T[k] < w.at)
    <3>1. SUFFICES ASSUME T[k] < w.at PROVE FALSE
      OBVIOUS
    <3>2. Cardinality(UpTo(T[k])) <= before
      BY <2>4, <3>1, Counts DEF before
    <3>3. QED
      BY <2>1, <2>3, <2>5, <3>2
  <2>7. ~(w.at < T[k])
    <3>1. SUFFICES ASSUME w.at < T[k] PROVE FALSE
      OBVIOUS
    <3>2. upto <= Cardinality(Earlier(T[k]))
      BY <2>4, <3>1, Counts DEF upto
    <3>3. QED
      BY <2>1, <2>3, <2>5, <3>2
  <2>8. T[k] = w.at
    BY <2>4, <2>6, <2>7
  <2>9. QED
    BY <2>2, <2>8 DEF before
<1>11. \A k \in 1 .. n : \E w \in windows : T[k] = w.at
  BY <1>4
<1>12. QED
  BY <1>4, <1>8, <1>9, <1>10, <1>11 DEF T, n

(* The reference rise at the time of a crash is the rise of its split.     *)
LEMMA RisesAgree ==
  ASSUME WindowsAreTimed, NEW v \in windows
  PROVE  /\ RiseAt(v.at) = Rise(Times, Cardinality(Earlier(v.at)) + 1)
         /\ (\E w \in windows : w.at > v.at) <=> Times[Len(Times)] > v.at
<1> DEFINE n == Cardinality(windows)
           S == {w.at : w \in windows}
           T == Times
           before == Cardinality(Earlier(v.at))
<1>1. n \in Nat \ {0} /\ before \in Nat
  <2>1. before + 1 \in 1 .. n /\ n \in Nat /\ before \in Nat
    BY Counts, TimesAreOrdered
  <2> HIDE DEF n, before
  <2>2. QED
    BY <2>1
<1>2. T \in Seq(Int) /\ Len(T) = n /\ T[before + 1] = v.at
  BY TimesAreOrdered
<1>3. 1 \in 1 .. n /\ n \in 1 .. n
  <2> HIDE DEF n
  <2> QED BY <1>1
<1>4. T[1] \in S /\ T[n] \in S
  BY <1>3, TimesAreOrdered
<1>5. \A w \in windows : w.at \in Int
  BY DEF WindowsAreTimed
<1>6. \A w \in windows : T[1] <= w.at
  <2>1. SUFFICES ASSUME NEW w \in windows, w.at < T[1] PROVE FALSE
    BY <1>4, <1>5
  <2>2. Cardinality(UpTo(w.at)) <= Cardinality(Earlier(T[1]))
    BY <1>4, <1>5, <2>1, Counts
  <2>3. Cardinality(Earlier(T[1])) < 1
    BY <1>3, TimesAreOrdered
  <2>4. Cardinality(Earlier(w.at)) < Cardinality(UpTo(w.at))
    BY Counts
  <2>5. /\ Cardinality(Earlier(w.at)) \in Nat /\ Cardinality(UpTo(w.at)) \in Nat
        /\ Cardinality(Earlier(T[1])) \in Nat
    BY Counts
  <2>6. QED
    BY <2>2, <2>3, <2>4, <2>5
<1>7. \A w \in windows : T[n] >= w.at
  <2>1. UpTo(T[n]) \in SUBSET windows /\ IsFiniteSet(windows)
    BY DEF UpTo, WindowsAreTimed
  <2>2. n <= Cardinality(UpTo(T[n])) /\ Cardinality(UpTo(T[n])) <= n /\ Cardinality(UpTo(T[n])) \in Nat
    BY <1>3, Counts, TimesAreOrdered
  <2>3. Cardinality(UpTo(T[n])) = n
    <3> HIDE DEF n
    <3> QED BY <1>1, <2>2
  <2>4. UpTo(T[n]) = windows
    BY <2>1, <2>3, FS_Subset
  <2>5. \A w \in windows : w.at <= T[n]
    BY <2>4 DEF UpTo
  <2>6. QED
    BY <1>4, <1>5, <2>5
<1>8. \A x \in S : x \in Int /\ T[1] <= x /\ T[n] >= x
  BY <1>5, <1>6, <1>7
<1> HIDE DEF S, T
<1>9. Min(S) = T[1]
  BY <1>4, <1>8 DEF Min
<1>10. Max(S) = T[n]
  BY <1>4, <1>8 DEF Max
<1>11. Len(T) - (before + 1) + 1 = n - before /\ (before + 1) - 1 = before
  <2> HIDE DEF n, before
  <2> QED BY <1>1, <1>2
<1>12. RiseAt(v.at) = Rise(T, before + 1)
  <2>1. RiseAt(v.at) = [num |-> (n - before) * Most(v.at - T[1], Day) - before * Most(T[n] - v.at, Day),
                        den |-> Most(v.at - T[1], Day) * Most(T[n] - v.at, Day)]
    BY <1>9, <1>10, Zenon DEF RiseAt, S
  <2>2. Rise(T, before + 1) =
          [num |-> (Len(T) - (before + 1) + 1) * Most(T[before + 1] - T[1], Day)
                     - ((before + 1) - 1) * Most(T[Len(T)] - T[before + 1], Day),
           den |-> Most(T[before + 1] - T[1], Day) * Most(T[Len(T)] - T[before + 1], Day)]
    BY Zenon DEF Rise
  <2> HIDE DEF n, before
  <2>3. QED
    BY <1>2, <1>11, <2>1, <2>2
<1>13. (\E w \in windows : w.at > v.at) <=> T[n] > v.at
  <2>1. v.at \in Int /\ T[n] \in Int
    BY <1>4, <1>5, <1>8
  <2>2. ASSUME NEW w \in windows, w.at > v.at PROVE T[n] > v.at
    BY <1>5, <1>7, <2>1, <2>2
  <2>3. ASSUME T[n] > v.at PROVE \E w \in windows : w.at > v.at
    BY <1>4, <2>3 DEF S
  <2>4. QED
    BY <2>2, <2>3
<1>14. QED
  BY <1>2, <1>12, <1>13 DEF T

(* Of the splits at one time the first has the greatest rise.              *)
LEMMA FirstSplitRisesMost ==
  ASSUME NEW t \in Seq(Int), NEW i \in 1 .. Len(t), NEW j \in 1 .. Len(t), i <= j, t[i] = t[j]
  PROVE  ~Steeper(Rise(t, j), Rise(t, i))
<1> DEFINE n == Len(t)
           before == Most(t[i] - t[1], Day)
           after == Most(t[n] - t[i], Day)
           num(k) == (n - k + 1) * before - (k - 1) * after
           den == before * after
<1>1. n \in Nat \ {0} /\ i \in 1 .. n /\ j \in 1 .. n /\ t[i] \in Int /\ t[1] \in Int /\ t[n] \in Int
  OBVIOUS
<1>2. Day \in Nat \ {0}
  BY ReportsAreCollections
<1>3. before \in Nat \ {0} /\ after \in Nat \ {0}
  BY <1>1, <1>2 DEF Most
<1>4. /\ Rise(t, i) = [num |-> num(i), den |-> den]
      /\ Rise(t, j) = [num |-> num(j), den |-> den]
  BY DEF Rise
<1> HIDE DEF n, before, after
<1>5. den \in Nat \ {0}
  BY <1>3, SpansMultiply
<1>6. ~((n - j + 1) * before > (n - i + 1) * before)
  BY <1>1, <1>3, ScalingKeepsOrder
<1>7. ~((i - 1) * after > (j - 1) * after)
  BY <1>1, <1>3, ScalingKeepsOrder
<1>8. num(i) \in Int /\ num(j) \in Int /\ ~(num(j) > num(i))
  <2>1. /\ (n - i + 1) * before \in Int /\ (n - j + 1) * before \in Int
        /\ (i - 1) * after \in Int /\ (j - 1) * after \in Int
    BY <1>1, <1>3
  <2> DEFINE a == (n - i + 1) * before
             b == (n - j + 1) * before
             c == (i - 1) * after
             d == (j - 1) * after
  <2>2. num(i) = a - c /\ num(j) = b - d
    OBVIOUS
  <2>3. a \in Int /\ b \in Int /\ c \in Int /\ d \in Int /\ ~(b > a) /\ ~(c > d)
    BY <1>6, <1>7, <2>1
  <2> HIDE DEF a, b, c, d, num
  <2>4. QED
    BY <2>2, <2>3
<1> HIDE DEF num, den
<1>9. ~(num(j) * den > num(i) * den)
  BY <1>5, <1>8, ScalingKeepsOrder
<1>10. QED
  BY <1>4, <1>9 DEF Steeper

(* What the property says of a changepoint that was searched for.          *)
SharpestOnset ==
  /\ (onset # None) <=> Cardinality(windows) >= 2
  /\ onset # None =>
       /\ onset.after >= 2
       /\ \A v \in windows :
            /\ \E w \in windows : w.at > v.at
            /\ v.at # onset.at
            => /\ ~Steeper(RiseAt(v.at), RiseAt(onset.at))
               /\ v.at < onset.at => Steeper(RiseAt(onset.at), RiseAt(v.at))

(* The search finds it.                                                    *)
LEMMA AnalysisFindsTheOnset ==
  ASSUME TypeOK, WindowsAreTimed, onset = Analyse
  PROVE  SharpestOnset
<1> DEFINE n == Cardinality(windows)
           at == BestSplit(Times)
           later == {w \in windows : w.at >= at}
           after == Cardinality(later)
           found == [at |-> at, after |-> after, before |-> n - after,
                     stable |-> Most((at - report.since) \div Day, 0), suspects |-> Suspects(at)]
<1>1. n \in Nat
  BY Counts
<1>2. Analyse = IF n < 2 \/ after < 2 THEN None ELSE found
  BY Zenon DEF Analyse, MinCrashesAfter
<1>3. CASE n < 2
  <2>1. onset = None /\ ~(n >= 2)
    <3> HIDE DEF n
    <3> QED BY <1>1, <1>2, <1>3
  <2>2. QED
    BY <2>1 DEF SharpestOnset
<1>4. CASE ~(n < 2)
  <2>1. /\ Times \in Seq(Int) /\ Len(Times) = n
        /\ \A i, j \in 1 .. n : i <= j => Times[i] <= Times[j]
    BY TimesAreOrdered
  <2>2. n >= 2 /\ n # 0 /\ n \in 1 .. n
    <3> HIDE DEF n
    <3> QED BY <1>1, <1>4
  <2>3. PICK j \in 1 .. n : at = Times[j] /\ Sharpest(Times, j)
    <3>1. \E j \in 1 .. Len(Times) : BestSplit(Times) = Times[j] /\ Sharpest(Times, j)
      <4> DEFINE len == Len(Times)
      <4>1. Len(Times) # 0 /\ \A i, j \in 1 .. Len(Times) : i <= j => Times[i] <= Times[j]
        <5> HIDE DEF n
        <5> QED BY <2>1, <2>2
      <4>2. QED
        BY <2>1, <4>1, BestSplitIsSharpest
    <3>2. QED
      BY <2>1, <3>1
  <2>4. PICK split \in windows : split.at = at
    BY <2>3, TimesAreOrdered
  <2>5. at \in Int /\ \A w \in windows : w.at \in Int
    BY <2>4 DEF WindowsAreTimed
  <2> HIDE DEF at
  <2>6. later \in SUBSET windows /\ IsFiniteSet(later) /\ after \in Nat
    BY FS_Subset, FS_CardinalityType DEF WindowsAreTimed
  <2>7. after >= 2
    <3>1. CASE Times[n] > at
      <4>1. PICK w \in windows : Times[n] = w.at
        BY <2>2, TimesAreOrdered
      <4>2. {w, split} \in SUBSET later /\ w # split
        BY <2>4, <2>5, <3>1, <4>1
      <4>3. Cardinality({w, split}) = 2
        <5>1. Cardinality({w}) = 1 /\ IsFiniteSet({w}) /\ {w} \cup {split} = {w, split} /\ split \notin {w}
          BY <4>2, FS_Singleton
        <5>2. Cardinality({w} \cup {split}) = 1 + 1
          BY <5>1, FS_AddElement
        <5>3. QED
          BY <5>1, <5>2
      <4> HIDE DEF later
      <4>4. QED
        BY <2>6, <4>2, <4>3, FS_Subset
    <3>2. CASE ~(Times[n] > at)
      <4>1. ASSUME NEW w \in windows PROVE w.at >= at
        <5> DEFINE i == Cardinality(Earlier(w.at)) + 1
        <5>1. i \in 1 .. n /\ Times[i] = w.at
          BY TimesAreOrdered
        <5> HIDE DEF i
        <5>2. Times[n] > Times[i] => Times[n] > Times[j]
          <6> HIDE DEF n
          <6> QED BY <2>1, <2>3, <5>1 DEF Sharpest
        <5>3. ~(Times[n] > w.at)
          BY <2>3, <3>2, <5>1, <5>2
        <5>4. Times[n] \in Int /\ Times[j] <= Times[n]
          <6> HIDE DEF n
          <6> QED BY <1>1, <2>1, <2>2, <2>3
        <5>5. QED
          BY <2>3, <2>5, <5>3, <5>4
      <4>2. later = windows
        BY <4>1
      <4>3. QED
        BY <2>2, <4>2
    <3>3. QED
      BY <3>1, <3>2
  <2> HIDE DEF n, later, after
  <2>8. found \in Changepoints
    <3>1. n - after \in Int
      BY <1>1, <2>6 DEF after
    <3>2. /\ Day \in Nat \ {0} /\ report.changes \subseteq Int /\ report.since \in Int
      BY ReportsAreCollections DEF TypeOK
    <3>3. (at - report.since) \div Day \in Int
      BY <2>5, <3>2
    <3>4. Most((at - report.since) \div Day, 0) \in Nat
      BY <3>3 DEF Most
    <3>5. Suspects(at) \in SUBSET Int
      BY <3>2 DEF Suspects
    <3>6. QED
      BY <2>5, <2>6, <3>1, <3>4, <3>5 DEF Changepoints
  <2>9. onset = found /\ onset # None
    <3>1. ~(n < 2 \/ after < 2)
      BY <1>4, <2>6, <2>7 DEF n
    <3>2. QED
      BY <1>2, <2>8, <3>1, NoneIsNoChangepoint
  <2>10. onset.after >= 2 /\ onset.at = at
    BY <2>7, <2>9
  <2>11. ASSUME NEW v \in windows, \E w \in windows : w.at > v.at
         PROVE  /\ ~Steeper(RiseAt(v.at), RiseAt(at))
                /\ v.at < at => Steeper(RiseAt(at), RiseAt(v.at))
    <3> DEFINE i == Cardinality(Earlier(v.at)) + 1
               first == Cardinality(Earlier(at)) + 1
    <3>1. i \in 1 .. n /\ Times[i] = v.at /\ first \in 1 .. n /\ Times[first] = at
      BY <2>4, TimesAreOrdered DEF n
    <3>2. first <= j
      <4>1. Cardinality(Earlier(Times[j])) < j
        BY <2>3, TimesAreOrdered DEF n
      <4>2. Cardinality(Earlier(at)) \in Nat /\ j \in Nat
        BY <1>1, <2>3, Counts
      <4>3. QED
        BY <2>3, <4>1, <4>2
    <3>3. RiseAt(v.at) = Rise(Times, i) /\ RiseAt(at) = Rise(Times, first) /\ Times[n] > v.at
      <4>1. RiseAt(v.at) = Rise(Times, i) /\ Times[Len(Times)] > v.at
        BY <2>11, RisesAgree
      <4>2. RiseAt(at) = Rise(Times, first)
        BY <2>4, RisesAgree
      <4>3. QED
        BY <2>1, <4>1, <4>2
    <3> HIDE DEF i, first
    <3> DEFINE ri == Rise(Times, i)
               rj == Rise(Times, j)
               rf == Rise(Times, first)
    <3>4. ri \in Fractions /\ rj \in Fractions /\ rf \in Fractions
      BY <2>1, <2>3, <3>1, RisesAreFractions
    <3>5. ~Steeper(ri, rj) /\ (v.at < at => Steeper(rj, ri))
      BY <2>1, <2>3, <3>1, <3>3 DEF Sharpest
    <3>6. ~Steeper(rj, rf)
      BY <2>1, <2>3, <3>1, <3>2, FirstSplitRisesMost
    <3>7. RiseAt(v.at) = ri /\ RiseAt(at) = rf
      BY <3>3
    <3> HIDE DEF ri, rj, rf
    <3>8. ~Steeper(ri, rf)
      BY <3>4, <3>5, <3>6, SteeperOrders
    <3>9. v.at < at => Steeper(rf, ri)
      BY <3>4, <3>5, <3>6, SteeperOrders
    <3>10. QED
      BY <3>7, <3>8, <3>9
  <2>12. QED
    BY <2>2, <2>9, <2>10, <2>11 DEF SharpestOnset, n
<1>5. QED
  BY <1>3, <1>4

(* The windows are finitely many, and the changepoint is what the analysis *)
(* finds in them.                                                          *)
OnsetInv ==
  /\ IsFiniteSet(windows)
  /\ phase \in {"rules", "done"} => onset = Analyse

LEMMA InitOnset == Init => OnsetInv
<1>1. SUFFICES ASSUME Init PROVE OnsetInv
  OBVIOUS
<1>2. IsFiniteSet(windows)
  BY <1>1, FS_EmptySet DEF Init
<1>3. QED
  BY <1>1, <1>2 DEF Init, OnsetInv

LEMMA NextOnset == TypeOK /\ OnsetInv /\ [Next]_vars => OnsetInv'
<1> SUFFICES ASSUME TypeOK, OnsetInv, [Next]_vars PROVE OnsetInv'
  OBVIOUS
<1>1. report \in Reports /\ IsFiniteSet(windows)
  BY DEF TypeOK, OnsetInv
<1>2. ASSUME windows' = windows, report' = report PROVE Analyse' = Analyse
  <2>1. Times' = Times
    BY <1>2 DEF Times, Earlier, UpTo
  <2>2. QED
    BY <1>2, <2>1 DEF Analyse, Suspects
<1>3. CASE CorrelateDumps
  <2> DEFINE found == [i \in SystemCrashes |-> Window(report.crashes[i].at, "dump", i)]
  <2>1. windows' = {found[i] : i \in SystemCrashes} /\ phase' = "markers"
    BY <1>3 DEF CorrelateDumps
  <2>2. IsFiniteSet(SystemCrashes)
    <3>1. SystemCrashes \in SUBSET DOMAIN report.crashes
      BY DEF SystemCrashes, Dumps
    <3>2. QED
      BY <1>1, <3>1, IndicesAreFinite
  <2> HIDE DEF found
  <2>3. IsFiniteSet({found[i] : i \in SystemCrashes})
    BY <2>2, ImageIsFinite
  <2>4. QED
    BY <2>1, <2>3 DEF OnsetInv
<1>4. CASE CorrelateEvent
  <2>1. phase' = "markers" /\ (windows' = windows \/ \E w : windows' = windows \cup {w})
    BY <1>4 DEF CorrelateEvent
  <2>2. IsFiniteSet(windows')
    BY <1>1, <2>1, FS_AddElement
  <2>3. QED
    BY <2>1, <2>2 DEF OnsetInv
<1>5. CASE Correlated
  BY <1>1, <1>5 DEF Correlated, OnsetInv
<1>6. CASE FindOnset
  <2>1. windows' = windows /\ report' = report /\ onset' = Analyse
    BY <1>6 DEF FindOnset
  <2>2. QED
    BY <1>1, <1>2, <2>1 DEF OnsetInv
<1>7. CASE EvaluateRule \/ CombineFindings \/ Finished \/ UNCHANGED vars
  <2>1. windows' = windows /\ report' = report /\ onset' = onset
    BY <1>7 DEF EvaluateRule, CombineFindings, Finished, vars
  <2>2. phase' \in {"rules", "done"} => phase \in {"rules", "done"}
    BY <1>7 DEF EvaluateRule, CombineFindings, Finished, vars
  <2>3. QED
    BY <1>1, <1>2, <2>1, <2>2 DEF OnsetInv
<1>8. QED
  BY <1>3, <1>4, <1>5, <1>6, <1>7 DEF Next

(* The changepoint is where the crash rate rose most, and the earliest     *)
(* such crash, whatever the crashes and however many share a time: the one *)
(* pass of the search misses no split.                                     *)
THEOREM OnsetIsWhereItRose == Spec => []OnsetIsTheSharpestRise
<1>1. TypeOK /\ OnsetInv => OnsetIsTheSharpestRise
  <2>1. SUFFICES ASSUME TypeOK, OnsetInv, phase \in {"rules", "done"} PROVE SharpestOnset
    BY DEF OnsetIsTheSharpestRise, SharpestOnset
  <2>2. WindowsAreTimed
    BY <2>1, WindowTimes DEF WindowsAreTimed, OnsetInv
  <2>3. QED
    BY <2>1, <2>2, AnalysisFindsTheOnset DEF OnsetInv
<1>2. QED
  BY <1>1, InitTypeOK, NextTypeOK, InitOnset, NextOnset, PTL DEF Spec

(***************************************************************************)
(* Scores.                                                                 *)
(***************************************************************************)
(* p holds the product of the numbers of f over each part of S, whichever  *)
(* factor is taken out first.                                              *)
IsProduct(p, S, f) ==
  /\ p \in [SUBSET S -> Nat] /\ p[{}] = 1
  /\ \A s \in SUBSET S : \A x \in s : p[s] = f[x] * p[s \ {x}]

LEMMA TimesInAnyOrder ==
  /\ \A a, b, c \in Nat : a * (b * c) = b * (a * c)
  /\ \A a, b, c \in Nat : (a * b) * c = a * (b * c)
  /\ \A a, b \in Nat : a * b \in Nat /\ a * b = b * a
  /\ \A a, b, c, d \in Nat : a <= b /\ c <= d => a * c <= b * d
<1>1. \A a, b \in Nat : a * b \in Nat /\ a * b = b * a
  OBVIOUS
<1>2. \A a, b, c \in Nat : a * (b * c) = b * (a * c)
  OBVIOUS
<1>3. \A a, b, c \in Nat : (a * b) * c = a * (b * c)
  OBVIOUS
<1>4. ASSUME NEW a \in Nat, NEW b \in Nat, NEW c \in Nat, NEW d \in Nat, a <= b, c <= d
      PROVE  a * c <= b * d
  <2>1. PICK x \in Nat : b = a + x
    <3>1. b - a \in Nat /\ b = a + (b - a)
      BY <1>4
    <3>2. QED
      BY <3>1
  <2>2. PICK y \in Nat : d = c + y
    <3>1. d - c \in Nat /\ d = c + (d - c)
      BY <1>4
    <3>2. QED
      BY <3>1
  <2>3. b * d = a * c + (a * y + (x * c + x * y))
    BY <2>1, <2>2
  <2>4. a * y + (x * c + x * y) \in Nat /\ a * c \in Nat
    BY <1>1
  <2>5. QED
    BY <2>3, <2>4
<1>5. QED
  BY <1>1, <1>2, <1>3, <1>4

LEMMA ProductIs ==
  ASSUME NEW S, IsFiniteSet(S), NEW f \in [S -> Nat]
  PROVE  \E p : IsProduct(p, S, f) /\ Product(f) = p[S]
<1> DEFINE any(s) == CHOOSE x \in s : TRUE
           Folds(p) == p = [s \in SUBSET S |-> IF s = {} THEN 1 ELSE f[any(s)] * p[s \ {any(s)}]]
<1>1. \A s : s # {} => any(s) \in s
  OBVIOUS
<1>2. \E p : p \in [SUBSET S -> Nat] /\ Folds(p)
  <2> DEFINE op == [x \in S |-> [n \in Nat |-> f[x] * n]]
             pick == [s \in SUBSET S |-> any(s)]
  <2>1. op \in [S -> [Nat -> Nat]]
    BY TimesInAnyOrder
  <2>2. \A s \in SUBSET S : s # {} => pick[s] \in s
    BY <1>1
  <2>3. HasFold(S, Nat, 1, op, pick)
    <3> HIDE DEF any, op, pick
    <3> QED BY <2>1, <2>2, FoldExists
  <2>4. PICK p \in [SUBSET S -> Nat] : \A s \in SUBSET S :
          p[s] = IF s = {} THEN 1 ELSE op[pick[s]][p[s \ {pick[s]}]]
    <3> HIDE DEF any, op, pick
    <3> QED BY <2>3 DEF HasFold, FoldOf
  <2>5. ASSUME NEW s \in SUBSET S, s # {} PROVE p[s] = f[any(s)] * p[s \ {any(s)}]
    <3>1. any(s) \in S /\ p[s \ {any(s)}] \in Nat /\ pick[s] = any(s)
      BY <1>1, <2>5
    <3> HIDE DEF any, pick
    <3>2. p[s] = op[any(s)][p[s \ {any(s)}]]
      BY <2>4, <2>5, <3>1
    <3>3. QED
      BY <3>1, <3>2
  <2>6. p = [s \in SUBSET S |-> IF s = {} THEN 1 ELSE f[any(s)] * p[s \ {any(s)}]]
    <3> HIDE DEF any, op, pick
    <3>1. \A s \in SUBSET S : p[s] = IF s = {} THEN 1 ELSE f[any(s)] * p[s \ {any(s)}]
      BY <2>4, <2>5
    <3>2. QED
      BY <3>1
  <2>7. QED
    <3> HIDE DEF any
    <3> QED BY <2>6
<1> DEFINE p == CHOOSE p : Folds(p)
<1>3. Product(f) = p[S]
  BY DEF Product, FoldFunction, FoldFunctionOnSet, MapThenFoldSet
<1> HIDE DEF any
<1>4. Folds(p)
  <2> HIDE DEF Folds
  <2> QED BY <1>2
<1> HIDE DEF p
<1>5. \A s \in SUBSET S : p[s] = IF s = {} THEN 1 ELSE f[any(s)] * p[s \ {any(s)}]
  BY <1>4
<1>6. DOMAIN p = SUBSET S /\ p = [s \in SUBSET S |-> p[s]]
  BY <1>4
<1> HIDE DEF Folds
<1> DEFINE Q == {s \in SUBSET S : p[s] \in Nat}
<1>7. ASSUME NEW s \in SUBSET S, \A x \in s : s \ {x} \in Q PROVE s \in Q
  <2>1. CASE s = {}
    <3>1. p[s] = 1
      BY <1>5, <2>1
    <3>2. QED
      BY <3>1
  <2>2. CASE s # {}
    <3>1. any(s) \in s /\ f[any(s)] \in Nat /\ p[s \ {any(s)}] \in Nat
      BY <1>1, <1>7, <2>2
    <3>2. p[s] = f[any(s)] * p[s \ {any(s)}]
      BY <1>5, <2>2
    <3>3. QED
      BY <3>1, <3>2, TimesInAnyOrder
  <2>3. QED
    BY <2>1, <2>2
<1>8. Q = SUBSET S
  <2>1. Q \in SUBSET SUBSET S
    OBVIOUS
  <2> HIDE DEF Q
  <2>2. QED
    BY <1>7, <2>1, EverySubset
<1>9. p \in [SUBSET S -> Nat] /\ p[{}] = 1
  BY <1>5, <1>6, <1>8
<1> DEFINE R == {s \in SUBSET S : \A x \in s : p[s] = f[x] * p[s \ {x}]}
<1>10. ASSUME NEW s \in SUBSET S, \A x \in s : s \ {x} \in R PROVE s \in R
  <2> SUFFICES ASSUME NEW x \in s PROVE p[s] = f[x] * p[s \ {x}]
    OBVIOUS
  <2> DEFINE c == any(s)
             rest == (s \ {x}) \ {c}
  <2>1. c \in s /\ p[s] = f[c] * p[s \ {c}]
    BY <1>1, <1>5
  <2>2. CASE x = c
    BY <2>1, <2>2
  <2>3. CASE x # c
    <3>1. x \in s \ {c} /\ c \in s \ {x} /\ (s \ {c}) \ {x} = rest /\ rest \in SUBSET S
      BY <2>1, <2>3
    <3>2. p[s \ {c}] = f[x] * p[rest] /\ p[s \ {x}] = f[c] * p[rest]
      BY <1>10, <2>1, <3>1
    <3>3. f[x] \in Nat /\ f[c] \in Nat /\ p[rest] \in Nat
      BY <1>9, <2>1, <3>1
    <3>4. QED
      BY <2>1, <3>2, <3>3, TimesInAnyOrder
  <2>4. QED
    BY <2>2, <2>3
<1>11. R = SUBSET S
  <2>1. R \in SUBSET SUBSET S
    OBVIOUS
  <2> HIDE DEF R
  <2>2. QED
    BY <1>10, <2>1, EverySubset
<1>12. IsProduct(p, S, f)
  BY <1>9, <1>11 DEF IsProduct
<1>13. QED
  BY <1>3, <1>12

(* A product over more factors is split.                                   *)
LEMMA ProductSplits ==
  ASSUME NEW S, IsFiniteSet(S), NEW f \in [S -> Nat], NEW p, IsProduct(p, S, f),
         NEW T \in SUBSET S, NEW g \in [T -> Nat], NEW q, IsProduct(q, T, g),
         \A x \in T : g[x] = f[x]
  PROVE  p[S] = q[T] * p[S \ T]
<1>1. /\ p \in [SUBSET S -> Nat] /\ p[{}] = 1 /\ q \in [SUBSET T -> Nat] /\ q[{}] = 1
      /\ \A s \in SUBSET S : \A x \in s : p[s] = f[x] * p[s \ {x}]
      /\ \A s \in SUBSET T : \A x \in s : q[s] = g[x] * q[s \ {x}]
  BY DEF IsProduct
<1> DEFINE U == S \ T
           Q == {s \in SUBSET T : p[s \cup U] = q[s] * p[U]}
<1>2. ASSUME NEW s \in SUBSET T, \A x \in s : s \ {x} \in Q PROVE s \in Q
  <2>1. CASE s = {}
    <3>1. p[U] \in Nat /\ {} \cup U = U
      BY <1>1
    <3>2. QED
      BY <1>1, <2>1, <3>1
  <2>2. CASE s # {}
    <3>1. PICK x \in s : TRUE
      BY <2>2
    <3>2. (s \cup U) \ {x} = (s \ {x}) \cup U /\ s \cup U \in SUBSET S /\ x \in s \cup U /\ x \in T
      OBVIOUS
    <3>3. p[s \cup U] = f[x] * p[(s \ {x}) \cup U] /\ q[s] = g[x] * q[s \ {x}]
      <4> DEFINE t == s \cup U
      <4>1. t \in SUBSET S /\ x \in t /\ t \ {x} = (s \ {x}) \cup U
        BY <3>2
      <4> HIDE DEF t
      <4>2. p[t] = f[x] * p[t \ {x}]
        BY <1>1, <4>1
      <4>3. q[s] = g[x] * q[s \ {x}]
        BY <1>1
      <4>4. QED
        BY <4>1, <4>2, <4>3 DEF t
    <3>4. p[(s \ {x}) \cup U] = q[s \ {x}] * p[U]
      BY <1>2
    <3>5. f[x] = g[x] /\ f[x] \in Nat /\ q[s \ {x}] \in Nat /\ p[U] \in Nat
      BY <1>1, <3>2
    <3>6. QED
      BY <3>3, <3>4, <3>5, TimesInAnyOrder
  <2>3. QED
    BY <2>1, <2>2
<1>3. Q = SUBSET T
  <2>1. Q \in SUBSET SUBSET T /\ IsFiniteSet(T)
    BY FS_Subset
  <2> HIDE DEF Q
  <2>2. QED
    BY <1>2, <2>1, EverySubset
<1>4. T \cup U = S
  OBVIOUS
<1>5. QED
  BY <1>3, <1>4

(* Of smaller factors it is smaller.                                       *)
LEMMA ProductGrows ==
  ASSUME NEW S, IsFiniteSet(S), NEW f \in [S -> Nat], NEW p, IsProduct(p, S, f),
         NEW g \in [S -> Nat], NEW q, IsProduct(q, S, g), \A x \in S : f[x] <= g[x]
  PROVE  \A s \in SUBSET S : p[s] <= q[s]
<1>1. /\ p \in [SUBSET S -> Nat] /\ p[{}] = 1 /\ q \in [SUBSET S -> Nat] /\ q[{}] = 1
      /\ \A s \in SUBSET S : \A x \in s : p[s] = f[x] * p[s \ {x}]
      /\ \A s \in SUBSET S : \A x \in s : q[s] = g[x] * q[s \ {x}]
  BY DEF IsProduct
<1> DEFINE Q == {s \in SUBSET S : p[s] <= q[s]}
<1>2. ASSUME NEW s \in SUBSET S, \A x \in s : s \ {x} \in Q PROVE s \in Q
  <2>1. CASE s = {}
    BY <1>1, <2>1
  <2>2. CASE s # {}
    <3>1. PICK x \in s : TRUE
      BY <2>2
    <3>2. p[s] = f[x] * p[s \ {x}] /\ q[s] = g[x] * q[s \ {x}]
      BY <1>1
    <3>3. p[s \ {x}] <= q[s \ {x}] /\ f[x] <= g[x]
      BY <1>2
    <3>4. f[x] \in Nat /\ g[x] \in Nat /\ p[s \ {x}] \in Nat /\ q[s \ {x}] \in Nat
      BY <1>1
    <3>5. QED
      BY <3>2, <3>3, <3>4, TimesInAnyOrder
  <2>3. QED
    BY <2>1, <2>2
<1>3. Q = SUBSET S
  <2>1. Q \in SUBSET SUBSET S
    OBVIOUS
  <2> HIDE DEF Q
  <2>2. QED
    BY <1>2, <2>1, EverySubset
<1>4. QED
  BY <1>3

LEMMA ThousandsArePositive ==
  ASSUME NEW S, IsFiniteSet(S), NEW w, IsProduct(w, S, [i \in S |-> 1000])
  PROVE  \A s \in SUBSET S : w[s] \in Nat \ {0}
<1> DEFINE f == [i \in S |-> 1000]
           Q == {s \in SUBSET S : w[s] \in Nat \ {0}}
<1>1. \A i \in S : f[i] = 1000
  OBVIOUS
<1> HIDE DEF f
<1>2. /\ w[{}] = 1 /\ \A s \in SUBSET S : \A x \in s : w[s] = f[x] * w[s \ {x}]
  BY DEF IsProduct, f
<1>3. ASSUME NEW s \in SUBSET S, \A x \in s : s \ {x} \in Q PROVE s \in Q
  <2>1. CASE s = {}
    BY <1>2, <2>1
  <2>2. CASE s # {}
    <3>1. PICK x \in s : TRUE
      BY <2>2
    <3>2. w[s] = f[x] * w[s \ {x}]
      BY <1>2
    <3>3. f[x] = 1000
      BY <1>1
    <3>4. w[s \ {x}] \in Nat \ {0}
      BY <1>3
    <3>5. QED
      BY <3>2, <3>3, <3>4
  <2>3. QED
    BY <2>1, <2>2
<1>4. Q = SUBSET S
  <2>1. Q \in SUBSET SUBSET S
    OBVIOUS
  <2> HIDE DEF Q
  <2>2. QED
    BY <1>3, <2>1, EverySubset
<1>5. QED
  BY <1>4

LEMMA QuotientIs ==
  ASSUME NEW x \in Nat, NEW d \in Nat, d > 0
  PROVE  x \div d \in Nat /\ (x \div d) * d <= x /\ x < (x \div d + 1) * d
<1>1. x \div d \in Nat
  OBVIOUS
<1>2. (x \div d) * d <= x
  OBVIOUS
<1>3. x < (x \div d + 1) * d
  OBVIOUS
<1>4. QED
  BY <1>1, <1>2, <1>3

(* What a group leaves is its part of doubt, cut off.                      *)
IsPart(left, p, w) ==
  /\ left \in Nat /\ p \in Nat /\ w \in Nat \ {0}
  /\ left * w <= p * 100000 /\ p * 100000 < (left + 1) * w

Doubts(fs, group, since, until) == [i \in group |-> Doubt(fs[i], since, until)]

(* w weighs each part of S a thousand times what it weighs less a member.   *)
WeighsThousands(w, S) ==
  /\ \A s \in SUBSET S : w[s] \in Nat \ {0}
  /\ \A s \in SUBSET S : \A z \in s : w[s] = 1000 * w[s \ {z}]

(* The product over a group of two or more is a multiple of a million.     *)
LEMMA TwoThousands ==
  ASSUME NEW S, NEW w, WeighsThousands(w, S), NEW x \in S, NEW y \in S, x # y
  PROVE  \E r \in Nat \ {0} : w[S] = 1000 * (1000 * r)
<1> DEFINE T == S \ {x}
           r == w[T \ {y}]
<1>1. S \in SUBSET S /\ T \in SUBSET S /\ T \ {y} \in SUBSET S /\ y \in T
  OBVIOUS
<1>2. w[S] = 1000 * w[T]
  BY <1>1 DEF WeighsThousands
<1> HIDE DEF T
<1>3. w[T] = 1000 * w[T \ {y}]
  BY <1>1 DEF WeighsThousands
<1>4. r \in Nat \ {0}
  BY <1>1 DEF WeighsThousands
<1> HIDE DEF r
<1>5. w[S] = 1000 * (1000 * r)
  BY <1>2, <1>3 DEF r
<1>6. QED
  BY <1>4, <1>5

LEMMA LeftIs ==
  ASSUME NEW fs, NEW group, IsFiniteSet(group), group # {}, NEW since, NEW until,
         Doubts(fs, group, since, until) \in [group -> Nat]
  PROVE  \E p, w : /\ IsProduct(p, group, Doubts(fs, group, since, until))
                   /\ IsProduct(w, group, [i \in group |-> 1000])
                   /\ IsPart(Left(fs, group, since, until), p[group], w[group])
<1> DEFINE D == Doubts(fs, group, since, until)
           K == [i \in group |-> 1000]
<1>1. K \in [group -> Nat] /\ \A i \in group : K[i] = 1000
  OBVIOUS
<1>2. Left(fs, group, since, until) =
        IF Cardinality(group) = 1 THEN Product(D) * (Scale \div Product(K))
        ELSE Product(D) \div (Product(K) \div Scale)
  BY DEF Left, Doubts
<1> HIDE DEF D
<1>3. PICK p : IsProduct(p, group, D) /\ Product(D) = p[group]
  <2>1. D \in [group -> Nat]
    BY DEF D
  <2>2. QED
    BY <2>1, ProductIs
<1>4. PICK w : IsProduct(w, group, K) /\ Product(K) = w[group]
  <2> HIDE DEF K
  <2>1. QED
    BY <1>1, ProductIs
<1>5. \A s \in SUBSET group : w[s] \in Nat \ {0}
  BY <1>4, ThousandsArePositive
<1> HIDE DEF K
<1>6. w[{}] = 1 /\ \A s \in SUBSET group : \A x \in s : w[s] = 1000 * w[s \ {x}]
  BY <1>1, <1>4 DEF IsProduct
<1> DEFINE P == p[group]
           W == w[group]
           left == Left(fs, group, since, until)
<1>7. P \in Nat /\ W \in Nat \ {0}
  BY <1>3, <1>5 DEF IsProduct
<1>8. left = IF Cardinality(group) = 1 THEN P * (Scale \div W) ELSE P \div (W \div Scale)
  BY <1>2, <1>3, <1>4
<1> HIDE DEF left, P
<1>9. CASE Cardinality(group) = 1
  <2>1. PICK x : group = {x}
    BY <1>9, FS_Singleton
  <2>2. W = 1000
    <3>1. group \ {x} = {} /\ x \in group
      BY <2>1
    <3>2. QED
      BY <1>6, <3>1
  <2>3. left = P * 100
    BY <1>8, <1>9, <2>2 DEF Scale
  <2>4. IsPart(left, P, W)
    BY <1>7, <2>2, <2>3 DEF IsPart
  <2>5. QED
    BY <1>3, <1>4, <2>4 DEF D, P, left, K
<1>10. CASE Cardinality(group) # 1
  <2>1. PICK x \in group : TRUE
    OBVIOUS
  <2>2. PICK y \in group \ {x} : TRUE
    <3>1. group # {x}
      BY <1>10, FS_Singleton
    <3>2. QED
      BY <2>1, <3>1
  <2>3. PICK r \in Nat \ {0} : W = 1000 * (1000 * r)
    <3>1. x \in group /\ y \in group /\ x # y
      BY <2>1, <2>2
    <3>2. WeighsThousands(w, group)
      BY <1>5, <1>6 DEF WeighsThousands
    <3>3. QED
      BY <3>1, <3>2, TwoThousands
  <2> HIDE DEF W
  <2> DEFINE q == 10 * r
  <2>4. q \in Nat \ {0} /\ W \div Scale = q /\ W = q * 100000
    BY <2>3 DEF Scale
  <2> HIDE DEF q
  <2>5. left = P \div q
    BY <1>8, <1>10, <2>4
  <2>6. left \in Nat /\ left * q <= P /\ P < (left + 1) * q
    BY <1>7, <2>4, <2>5, QuotientIs
  <2>7. left * W = (left * q) * 100000 /\ (left + 1) * W = ((left + 1) * q) * 100000
    BY <2>4, <2>6, TimesInAnyOrder
  <2>8. left * q \in Nat /\ (left + 1) * q \in Nat
    BY <2>4, <2>6, TimesInAnyOrder
  <2>9. W \in Nat \ {0}
    BY <2>3
  <2>10. IsPart(left, P, W)
    <3> DEFINE a == left * q
               b == (left + 1) * q
    <3>1. a \in Nat /\ b \in Nat /\ a <= P /\ P < b
      BY <2>6, <2>8
    <3> HIDE DEF a, b
    <3>2. a * 100000 <= P * 100000 /\ P * 100000 < b * 100000
      BY <1>7, <3>1
    <3>3. QED
      BY <1>7, <2>6, <2>7, <2>9, <3>2 DEF IsPart, a, b
  <2>11. QED
    BY <1>3, <1>4, <2>10 DEF D, P, W, left, K
<1>11. QED
  BY <1>9, <1>10

(* A part of less doubt, in no less a whole, is no greater.               *)
LEMMA PartsCompare ==
  ASSUME NEW x, NEW P, NEW W, IsPart(x, P, W), NEW y, NEW Q, NEW V, IsPart(y, Q, V),
         NEW more \in Nat, NEW k \in Nat \ {0}, Q = P * more, V = W * k, more <= k
  PROVE  y <= x
<1>1. /\ x \in Nat /\ y \in Nat /\ P \in Nat /\ W \in Nat \ {0}
      /\ P * 100000 < (x + 1) * W /\ y * (W * k) <= (P * more) * 100000
  BY DEF IsPart
<1>2. SUFFICES ASSUME x + 1 <= y PROVE FALSE
  BY <1>1
<1> DEFINE a == P * 100000
           b == (x + 1) * W
           U == W * k
<1>3. a \in Nat /\ b \in Nat /\ U \in Nat /\ a + 1 <= b
  BY <1>1, TimesInAnyOrder
<1>4. (P * more) * 100000 <= a * k
  <2>1. P * more <= P * k /\ P * more \in Nat /\ P * k \in Nat
    BY <1>1, TimesInAnyOrder
  <2>2. (P * k) * 100000 = a * k
    BY <1>1
  <2> DEFINE c == P * more
             d == P * k
  <2>3. c \in Nat /\ d \in Nat /\ c <= d
    BY <2>1
  <2> HIDE DEF c, d
  <2>4. c * 100000 <= d * 100000
    BY <2>3
  <2>5. QED
    BY <2>2, <2>4 DEF c, d
<1>5. (x + 1) * U = b * k
  BY <1>1, TimesInAnyOrder
<1>6. (x + 1) * U <= y * U
  <2> HIDE DEF U
  <2>1. x + 1 \in Nat /\ U <= U
    BY <1>1, <1>3
  <2>2. QED
    BY <1>1, <1>2, <1>3, <2>1, TimesInAnyOrder
<1>7. (a + 1) * k <= b * k
  <2> HIDE DEF a, b
  <2>1. a + 1 \in Nat /\ k <= k
    BY <1>3
  <2>2. QED
    BY <1>3, <2>1, TimesInAnyOrder
<1>8. (a + 1) * k = a * k + k /\ a * k \in Nat
  <2> HIDE DEF a
  <2>1. QED
    BY <1>3, TimesInAnyOrder
<1>9. y * U <= (P * more) * 100000
  BY <1>1
<1> DEFINE e == a * k
           g == b * k
           h == y * U
           i == (P * more) * 100000
<1>10. e \in Nat /\ e + k <= g /\ g <= h /\ h <= i /\ i <= e /\ g \in Nat /\ h \in Nat /\ i \in Nat
  <2>1. g \in Nat /\ h \in Nat /\ i \in Nat
    <3>1. P * more \in Nat
      BY <1>1, TimesInAnyOrder
    <3> HIDE DEF a, b, U
    <3>2. QED
      BY <1>1, <1>3, <3>1, TimesInAnyOrder
  <2> HIDE DEF a, b, U
  <2>2. QED
    BY <1>4, <1>5, <1>6, <1>7, <1>8, <1>9, <2>1
<1> HIDE DEF e, g, h, i
<1>11. QED
  BY <1>10

(* Places A of fs are among the places B of gs, and hold the same.         *)
IsFuller(gs, B, fs, A, since, until) ==
  /\ IsFiniteSet(B) /\ A # {} /\ A \in SUBSET B
  /\ \A i \in A : gs[i] = fs[i]
  /\ Doubts(gs, B, since, until) \in [B -> 0 .. 1000]

(* A group that grows leaves no more.                                      *)
LEMMA LeftFalls ==
  ASSUME NEW fs, NEW gs, NEW A, NEW B, NEW since, NEW until, IsFuller(gs, B, fs, A, since, until)
  PROVE  /\ Left(gs, B, since, until) <= Left(fs, A, since, until)
         /\ Left(fs, A, since, until) \in Nat /\ Left(gs, B, since, until) \in Nat
<1> DEFINE f == Doubts(fs, A, since, until)
           g == Doubts(gs, B, since, until)
           u == [i \in A |-> 1000]
           v == [i \in B |-> 1000]
<1>1. /\ IsFiniteSet(B) /\ A # {} /\ A \in SUBSET B
      /\ \A i \in A : gs[i] = fs[i]
      /\ g \in [B -> 0 .. 1000]
  BY DEF IsFuller
<1>2. IsFiniteSet(A) /\ B # {}
  BY <1>1, FS_Subset
<1>3. \A i \in A : f[i] = g[i]
  BY <1>1 DEF Doubts
<1>4. f = [i \in A |-> f[i]]
  BY DEF Doubts
<1>5. /\ u \in [A -> Nat] /\ v \in [B -> Nat]
      /\ \A i \in A : u[i] = 1000
      /\ \A i \in B : v[i] = 1000
  OBVIOUS
<1> HIDE DEF f, g
<1>6. \A i \in B : g[i] \in Nat /\ g[i] <= 1000
  BY <1>1
<1>7. f \in [A -> Nat] /\ g \in [B -> Nat]
  BY <1>1, <1>3, <1>4, <1>6
<1>8. PICK p, w : /\ IsProduct(p, A, f) /\ IsProduct(w, A, u)
                  /\ IsPart(Left(fs, A, since, until), p[A], w[A])
  BY <1>1, <1>2, <1>7, LeftIs DEF f
<1>9. PICK q, z : /\ IsProduct(q, B, g) /\ IsProduct(z, B, v)
                  /\ IsPart(Left(gs, B, since, until), q[B], z[B])
  BY <1>1, <1>2, <1>7, LeftIs DEF g
<1> DEFINE R == B \ A
<1>10. R \in SUBSET B
  OBVIOUS
<1>11. z[R] \in Nat \ {0}
  BY <1>1, <1>9, <1>10, ThousandsArePositive
<1> HIDE DEF u, v
<1>12. q[B] = p[A] * q[R]
  BY <1>1, <1>3, <1>7, <1>8, <1>9, ProductSplits
<1>13. z[B] = w[A] * z[R]
  <2>1. \A i \in A : u[i] = v[i]
    BY <1>1, <1>5
  <2>2. QED
    BY <1>1, <1>5, <1>8, <1>9, <2>1, ProductSplits
<1>14. q[R] <= z[R] /\ q[R] \in Nat
  <2>1. \A i \in B : g[i] <= v[i]
    BY <1>5, <1>6
  <2> HIDE DEF R
  <2>2. q[R] <= z[R]
    BY <1>1, <1>5, <1>7, <1>9, <1>10, <2>1, ProductGrows
  <2>3. QED
    BY <1>9, <1>10, <2>2 DEF IsProduct
<1> HIDE DEF R
<1>15. Left(gs, B, since, until) <= Left(fs, A, since, until)
  BY <1>8, <1>9, <1>11, <1>12, <1>13, <1>14, PartsCompare
<1>16. QED
  BY <1>8, <1>9, <1>15 DEF IsPart

(* What scoring asks of a finding.                                         *)
IsScorable(f) == f.weight \in Nat /\ (f.seen = None \/ f.seen \in Int)

LEMMA DoubtIsBounded ==
  ASSUME NEW f, IsScorable(f), NEW since \in Int, NEW until \in Int
  PROVE  Doubt(f, since, until) \in 0 .. 1000
<1> DEFINE d == until - since
           seen == f.seen
           x == Most(0, Least(seen - since, d))
<1>1. Recency(seen, since, until) = IF seen = None \/ until <= since THEN 10 ELSE 4 + (6 * x) \div d
  BY DEF Recency
<1>2. Recency(seen, since, until) \in 4 .. 10
  <2>1. CASE seen = None \/ until <= since
    BY <1>1, <2>1
  <2>2. CASE ~(seen = None \/ until <= since)
    <3>1. d \in Nat /\ d > 0 /\ seen \in Int
      BY <2>2 DEF IsScorable
    <3>2. x \in Nat /\ x <= d
      BY <3>1 DEF Most, Least
    <3> HIDE DEF d, x, seen
    <3> DEFINE q == (6 * x) \div d
    <3>3. 6 * x \in Nat /\ 6 * x <= 6 * d
      BY <3>1, <3>2
    <3>4. q \in Nat /\ q * d <= 6 * x
      BY <3>1, <3>3, QuotientIs
    <3> HIDE DEF q
    <3>5. q <= 6
      <4>1. SUFFICES ASSUME 7 <= q PROVE FALSE
        BY <3>4
      <4>2. 7 * d <= q * d
        BY <3>1, <3>4, <4>1, TimesInAnyOrder
      <4>3. q * d \in Nat
        BY <3>1, <3>4, TimesInAnyOrder
      <4> DEFINE m == q * d
      <4> HIDE DEF m
      <4>4. m \in Nat /\ 7 * d <= m /\ m <= 6 * x
        BY <3>4, <4>2, <4>3 DEF m
      <4>5. QED
        BY <3>1, <3>3, <4>4
    <3>6. QED
      BY <1>1, <2>2, <3>4, <3>5 DEF q
  <2>3. QED
    BY <2>1, <2>2
<1>3. Least(f.weight, 99) \in 0 .. 99
  BY DEF IsScorable, Least
<1> DEFINE w == Least(f.weight, 99)
           r == Recency(seen, since, until)
<1>4. w \in Nat /\ r \in Nat /\ w <= 99 /\ r <= 10
  BY <1>2, <1>3
<1>5. Doubt(f, since, until) = 1000 - w * r
  BY DEF Doubt
<1> HIDE DEF w, r
<1>6. w * r \in Nat /\ w * r <= 99 * 10
  BY <1>4, TimesInAnyOrder
<1>7. QED
  BY <1>5, <1>6

(* The newest of times of records is one of them.                          *)
LEMMA NewestIs ==
  ASSUME NEW D, IsFiniteSet(D), \A e \in D : e.at \in Int, NEW times, times = {e.at : e \in D}
  PROVE  Newest(times) = None \/ Newest(times) \in Int
<1>1. CASE D = {}
  BY <1>1 DEF Newest
<1>2. CASE D # {}
  <2>1. PICK d \in D : \A e \in D : e.at <= d.at
    BY <1>2, LastCrash
  <2>2. d.at \in times /\ \A u \in times : u <= d.at
    BY <2>1
  <2>3. Newest(times) \in times
    BY <2>2 DEF Newest
  <2>4. QED
    BY <2>3
<1>3. QED
  BY <1>1, <1>2

LEMMA NewestOf ==
  ASSUME NEW r \in Reports
  PROVE  /\ \A I \in SUBSET DOMAIN r.timeline :
              /\ Newest(EventTimes(r, I)) = None \/ Newest(EventTimes(r, I)) \in Int
              /\ Cardinality(I) \in Nat
         /\ \A I \in SUBSET DOMAIN r.crashes :
              /\ Newest(CrashTimes(r, I)) = None \/ Newest(CrashTimes(r, I)) \in Int
              /\ Cardinality(I) \in Nat
<1>1. ASSUME NEW I \in SUBSET DOMAIN r.timeline
      PROVE  Newest(EventTimes(r, I)) = None \/ Newest(EventTimes(r, I)) \in Int
  <2> DEFINE e == r.timeline
             D == {e[i] : i \in I}
  <2>1. IsFiniteSet(I)
    BY IndicesAreFinite
  <2>2. \A d \in D : d.at \in Int
    BY ReportTimes
  <2>3. EventTimes(r, I) = {d.at : d \in D}
    BY DEF EventTimes
  <2> HIDE DEF e
  <2>4. IsFiniteSet(D)
    BY <2>1, ImageIsFinite
  <2> HIDE DEF D
  <2>5. QED
    BY <2>2, <2>3, <2>4, NewestIs
<1>2. ASSUME NEW I \in SUBSET DOMAIN r.crashes
      PROVE  Newest(CrashTimes(r, I)) = None \/ Newest(CrashTimes(r, I)) \in Int
  <2> DEFINE e == r.crashes
             D == {e[i] : i \in I}
  <2>1. IsFiniteSet(I)
    BY IndicesAreFinite
  <2>2. \A d \in D : d.at \in Int
    BY ReportTimes
  <2>3. CrashTimes(r, I) = {d.at : d \in D}
    BY DEF CrashTimes
  <2> HIDE DEF e
  <2>4. IsFiniteSet(D)
    BY <2>1, ImageIsFinite
  <2> HIDE DEF D
  <2>5. QED
    BY <2>2, <2>3, <2>4, NewestIs
<1>3. QED
  BY <1>1, <1>2, IndicesAreFinite, FS_CardinalityType

LEMMA FindingIsScorable ==
  \A rule, cause, about, seen : \A weight \in Nat :
    (seen = None \/ seen \in Int) => IsScorable(Finding(rule, cause, about, weight, seen))
BY DEF IsScorable, Finding

(* Every rule gives its findings a weight, and the time of something that  *)
(* happened or none.                                                       *)
LEMMA FindingsAreScorable ==
  ASSUME NEW r \in Reports, NEW o, o = None \/ o.at \in Int, NEW rule \in ToSet(AllRules)
  PROVE  \A f \in Evaluate(rule, r, o) : IsScorable(f)
<1>1. \A kinds : Events(r, kinds) \in SUBSET DOMAIN r.timeline
  BY DEF Events
<1>2. \A source : Dumps(r, source) \in SUBSET DOMAIN r.crashes
  BY DEF Dumps
<1>3. DaysOf(r) \in Nat /\ DaysOf(r) > 0
  <2>1. Day \in Nat /\ Day > 0 /\ r.since \in Int /\ r.until \in Int
    BY ReportsAreCollections
  <2>2. (r.until - r.since) \div Day \in Int
    BY <2>1
  <2>3. QED
    BY <2>2 DEF DaysOf, Most
<1>4. \A f \in Whea(r) : IsScorable(f)
  <2> DEFINE seen == Newest(EventTimes(r, Events(r, {"corrected", "uncorrected"})))
             weight == IF Events(r, {"uncorrected"}) # {} THEN 92 ELSE 55
  <2>1. seen = None \/ seen \in Int
    BY <1>1, NewestOf
  <2>2. weight \in Nat
    OBVIOUS
  <2>3. \A f \in Whea(r) : f = Finding("Whea", Root("hardware-error"), None, weight, seen)
    BY DEF Whea
  <2> HIDE DEF seen, weight
  <2>4. QED
    BY <2>1, <2>2, <2>3, FindingIsScorable
<1>5. \A f \in DiskError(r) : IsScorable(f)
  <2> DEFINE of(device) == {i \in Events(r, {"disk"}) : r.timeline[i].about = device}
             seen(device) == Newest(EventTimes(r, of(device)))
             weight(device) == Least(60 + 6 * Cardinality(of(device)), 95)
  <2>1. SUFFICES ASSUME NEW device
                 PROVE  IsScorable(Finding("DiskError", Root("storage-failure"), device,
                                           weight(device), seen(device)))
    BY DEF DiskError
  <2>2. of(device) \in SUBSET DOMAIN r.timeline
    BY <1>1
  <2> HIDE DEF of
  <2>3. seen(device) = None \/ seen(device) \in Int
    BY <2>2, NewestOf
  <2>4. Cardinality(of(device)) \in Nat
    BY <2>2, NewestOf
  <2>5. weight(device) \in Nat
    BY <2>4 DEF Least
  <2> HIDE DEF seen, weight
  <2>6. QED
    BY <2>3, <2>5, FindingIsScorable
<1>6. \A f \in BugCheck(r) : IsScorable(f)
  <2> DEFINE dumps == {i \in Dumps(r, "kernel") : r.crashes[i].code # None}
             of(code) == {i \in dumps : r.crashes[i].code = code}
             seen(code) == Newest(CrashTimes(r, of(code)))
             weight(code) == Least(72 + 6 * Cardinality(of(code)), 94)
  <2>1. SUFFICES ASSUME NEW code
                 PROVE  IsScorable(Finding("BugCheck", RootCauseFor(code), code,
                                           weight(code), seen(code)))
    BY DEF BugCheck
  <2>2. of(code) \in SUBSET DOMAIN r.crashes
    BY <1>2
  <2> HIDE DEF of
  <2>3. seen(code) = None \/ seen(code) \in Int
    BY <2>2, NewestOf
  <2>4. Cardinality(of(code)) \in Nat
    BY <2>2, NewestOf
  <2>5. weight(code) \in Nat
    BY <2>4 DEF Least
  <2> HIDE DEF seen, weight
  <2>6. QED
    BY <2>3, <2>5, FindingIsScorable
<1>7. \A f \in CrashAttribution(r) : IsScorable(f)
  <2> DEFINE of(module) == {i \in Attributed(r) : r.crashes[i].module = module}
             seen(module) == Newest(CrashTimes(r, of(module)))
             weight(module) == IF Cardinality(of(module)) > 1 THEN 93 ELSE 82
  <2>1. SUFFICES ASSUME NEW module
                 PROVE  IsScorable(Finding("CrashAttribution", DriverFault(module), module,
                                           weight(module), seen(module)))
    BY DEF CrashAttribution
  <2>2. of(module) \in SUBSET DOMAIN r.crashes
    BY <1>2 DEF Attributed
  <2> HIDE DEF of
  <2>3. seen(module) = None \/ seen(module) \in Int
    BY <2>2, NewestOf
  <2>4. weight(module) \in Nat
    OBVIOUS
  <2> HIDE DEF seen, weight
  <2>5. QED
    BY <2>3, <2>4, FindingIsScorable
<1>8. \A f \in PowerLoss(r) : IsScorable(f)
  <2> DEFINE resets == Unexplained(r)
             seen == Newest(EventTimes(r, resets))
             weight == Least(48 + 9 * Cardinality(resets), 88)
  <2>1. \A f \in PowerLoss(r) : f = Finding("PowerLoss", Root("power-loss"), None, weight, seen)
    BY DEF PowerLoss
  <2>2. resets \in SUBSET DOMAIN r.timeline
    BY <1>1 DEF Unexplained
  <2> HIDE DEF resets
  <2>3. seen = None \/ seen \in Int
    BY <2>2, NewestOf
  <2>4. Cardinality(resets) \in Nat
    BY <2>2, NewestOf
  <2>5. weight \in Nat
    BY <2>4 DEF Least
  <2> HIDE DEF seen, weight
  <2>6. QED
    BY <2>1, <2>3, <2>5, FindingIsScorable
<1>9. \A f \in ApplicationCrash(r) : IsScorable(f)
  <2> DEFINE of(process) == {i \in Dumps(r, "user") : r.crashes[i].module = process}
             seen(process) == Newest(CrashTimes(r, of(process)))
             weight(process) == Least(22 + 6 * Cardinality(of(process)), 55)
  <2>1. SUFFICES ASSUME NEW process
                 PROVE  IsScorable(Finding("ApplicationCrash", ApplicationFault(process), process,
                                           weight(process), seen(process)))
    BY DEF ApplicationCrash
  <2>2. of(process) \in SUBSET DOMAIN r.crashes
    BY <1>2
  <2> HIDE DEF of
  <2>3. seen(process) = None \/ seen(process) \in Int
    BY <2>2, NewestOf
  <2>4. Cardinality(of(process)) \in Nat
    BY <2>2, NewestOf
  <2>5. weight(process) \in Nat
    BY <2>4 DEF Least
  <2> HIDE DEF seen, weight
  <2>6. QED
    BY <2>3, <2>5, FindingIsScorable
<1>10. \A f \in VulnerableDriver(r) : IsScorable(f)
  <2>1. SUFFICES ASSUME NEW name, NEW weight \in {90, 68}, NEW place
                 PROVE  IsScorable([Finding("VulnerableDriver", Root("vulnerable-driver"), name,
                                            weight, None) EXCEPT !.place = place])
    BY DEF VulnerableDriver
  <2>2. QED
    BY DEF Finding, IsScorable
<1>11. \A f \in UnsignedDriver(r) \cup SecurityPosture(r) \cup FirmwareAge(r) : IsScorable(f)
  BY DEF UnsignedDriver, SecurityPosture, FirmwareAge, Finding, IsScorable
<1>12. \A f \in SensorContention(r) : IsScorable(f)
  <2> DEFINE n == Cardinality(Contending(r))
             weight == Least(40 + 12 * n, 78)
  <2>1. n \in Nat
    <3>1. Contending(r) \in SUBSET DOMAIN r.drivers
      BY DEF Contending
    <3>2. QED
      BY <3>1, IndicesAreFinite, FS_CardinalityType
  <2>2. \A f \in SensorContention(r) :
          f = Finding("SensorContention", Root("sensor-contention"), None, weight, None)
    BY DEF SensorContention
  <2> HIDE DEF n
  <2>3. weight \in Nat
    BY <2>1 DEF Least
  <2> HIDE DEF weight
  <2>4. QED
    BY <2>2, <2>3, FindingIsScorable
<1>13. \A f \in DeviceProblem(r) \cup ServiceFailure(r) : IsScorable(f)
  <2>1. r.faults \in Nat /\ r.failures \in Nat
    BY ReportsAreCollections
  <2>2. Least(50 + 10 * r.faults, 85) \in Nat /\ Least(35 + 8 * r.failures, 70) \in Nat
    BY <2>1 DEF Least
  <2>3. QED
    BY <2>2, FindingIsScorable DEF DeviceProblem, ServiceFailure
<1>14. \A f \in DeviceReEnumeration(r) : IsScorable(f)
  <2> DEFINE n == Cardinality(Churn(r))
             d == DaysOf(r)
             seen == Newest(EventTimes(r, Churn(r)))
             weight == Least(45 + (2 * n) \div d, 80)
  <2>1. n \in Nat /\ (seen = None \/ seen \in Int)
    BY <1>1, NewestOf DEF Churn
  <2>2. \A f \in DeviceReEnumeration(r) :
          f = Finding("DeviceReEnumeration", Root("device-instability"), None, weight, seen)
    BY DEF DeviceReEnumeration
  <2>3. d \in Nat /\ d > 0
    BY <1>3
  <2> HIDE DEF n, d, seen
  <2>4. (2 * n) \div d \in Nat
    BY <2>1, <2>3, QuotientIs
  <2>5. weight \in Nat
    BY <2>4 DEF Least
  <2> HIDE DEF weight
  <2>6. QED
    BY <2>1, <2>2, <2>5, FindingIsScorable
<1>15. \A f \in ReliabilityTrend(r) : IsScorable(f)
  <2> DEFINE n == Cardinality(Errors(r))
             d == DaysOf(r)
             seen == Newest(EventTimes(r, Errors(r)))
             weight == Least(30 + Least(n \div d, 60), 72)
  <2>1. n \in Nat /\ (seen = None \/ seen \in Int)
    <3>1. Errors(r) \in SUBSET DOMAIN r.timeline
      BY DEF Errors
    <3>2. QED
      BY <3>1, NewestOf
  <2>2. \A f \in ReliabilityTrend(r) :
          f = Finding("ReliabilityTrend", Root("instability-trend"), None, weight, seen)
    BY DEF ReliabilityTrend
  <2>3. d \in Nat /\ d > 0
    BY <1>3
  <2> HIDE DEF n, d, seen
  <2>4. n \div d \in Nat
    BY <2>1, <2>3, QuotientIs
  <2>5. Least(n \div d, 60) \in Nat
    BY <2>4 DEF Least
  <2>6. weight \in Nat
    BY <2>5 DEF Least
  <2> HIDE DEF weight
  <2>7. QED
    BY <2>1, <2>2, <2>6, FindingIsScorable
<1>16. \A f \in Changepoint(o) : IsScorable(f)
  BY DEF Changepoint, Finding, IsScorable
<1>17. rule \in {"Whea", "DiskError", "BugCheck", "CrashAttribution", "PowerLoss",
                 "ApplicationCrash", "VulnerableDriver", "UnsignedDriver", "SensorContention",
                 "DeviceProblem", "DeviceReEnumeration", "ServiceFailure", "ReliabilityTrend",
                 "Changepoint", "SecurityPosture", "FirmwareAge"}
  BY DEF ToSet, AllRules
<1>18. QED
  BY <1>4, <1>5, <1>6, <1>7, <1>8, <1>9, <1>10, <1>11, <1>12, <1>13, <1>14, <1>15, <1>16, <1>17
  DEF Evaluate

(* A greater score, by no fewer rules, is not less confidence.             *)
LEMMA DeriveRises ==
  ASSUME NEW s \in Int, NEW t \in Int, s <= t, NEW m \in Nat, NEW n \in Nat, m <= n
  PROVE  Derive(s, m) <= Derive(t, n)
BY DEF Derive, Low, Moderate, High, Certain

(* Each finding of the group carries weights a rule gives.                 *)
AreScorable(fs, group) == \A i \in group : IsScorable(fs[i])

(* Doubts are thousandths.                                                *)
AreThousandths(doubts, group) == doubts \in [group -> 0 .. 1000]

(* The doubt each finding of a group leaves is at most the whole thousand. *)
LEMMA DoubtsAreBounded ==
  ASSUME NEW fs, NEW group, AreScorable(fs, group), NEW since \in Int, NEW until \in Int
  PROVE  AreThousandths(Doubts(fs, group, since, until), group)
<1>1. ASSUME NEW i \in group PROVE Doubt(fs[i], since, until) \in 0 .. 1000
  <2>1. IsScorable(fs[i])
    BY DEF AreScorable
  <2>2. QED
    BY <2>1, DoubtIsBounded
<1> DEFINE doubt(i) == Doubt(fs[i], since, until)
<1>2. Doubts(fs, group, since, until) = [i \in group |-> doubt(i)]
  BY DEF Doubts
<1>3. \A i \in group : doubt(i) \in 0 .. 1000
  BY <1>1
<1> HIDE DEF doubt
<1>4. QED
  BY <1>2, <1>3 DEF AreThousandths

(* What is found later takes nothing from a cause.                         *)
LEMMA MoreFindings ==
  ASSUME NEW S, NEW fs \in Seq(S), NEW order \in Seq(S), NEW cause \in Causes(fs),
         NEW since \in Int, NEW until \in Int, \A f \in S : IsScorable(f)
  PROVE  /\ cause \in Causes(fs \o order)
         /\ Score(fs \o order, cause, since, until) >= Score(fs, cause, since, until)
         /\ Derive(Score(fs \o order, cause, since, until),
                   Cardinality(Contributing(fs \o order, cause)))
            >= Derive(Score(fs, cause, since, until), Cardinality(Contributing(fs, cause)))
<1> DEFINE gs == fs \o order
           A == Group(fs, cause)
           B == Group(gs, cause)
<1>1. /\ gs \in Seq(S) /\ Len(gs) = Len(fs) + Len(order)
      /\ \A i \in 1 .. Len(fs) + Len(order) :
           gs[i] = IF i <= Len(fs) THEN fs[i] ELSE order[i - Len(fs)]
  BY ConcatProperties
<1> HIDE DEF gs
<1>2. /\ DOMAIN fs = 1 .. Len(fs) /\ DOMAIN gs = 1 .. Len(gs) /\ Len(fs) \in Nat /\ Len(order) \in Nat
      /\ Len(gs) \in Nat
  BY <1>1
<1>3. \A i \in DOMAIN fs : i \in DOMAIN gs /\ gs[i] = fs[i]
  BY <1>1, <1>2
<1>4. A \in SUBSET B /\ A # {} /\ \A i \in A : gs[i] = fs[i]
  BY <1>3 DEF Group, Causes
<1>5. IsFiniteSet(B)
  <2>1. IsFiniteSet(DOMAIN gs) /\ B \in SUBSET DOMAIN gs
    BY <1>2, FS_Interval DEF Group
  <2>2. QED
    BY <2>1, FS_Subset
<1>6. AreThousandths(Doubts(gs, B, since, until), B)
  <2>1. AreScorable(gs, B)
    <3>1. \A i \in DOMAIN gs : gs[i] \in S
      BY <1>1, <1>2
    <3>2. B \in SUBSET DOMAIN gs
      BY DEF Group
    <3> HIDE DEF A, B
    <3>3. QED
      BY <3>1, <3>2 DEF AreScorable
  <2> HIDE DEF A, B
  <2>2. QED
    BY <2>1, DoubtsAreBounded
<1> DEFINE x == Left(fs, A, since, until)
           y == Left(gs, B, since, until)
           s == Score(fs, cause, since, until)
           t == Score(gs, cause, since, until)
           m == Cardinality(Contributing(fs, cause))
           n == Cardinality(Contributing(gs, cause))
<1>7. y <= x /\ x \in Nat /\ y \in Nat
  <2> HIDE DEF A, B
  <2>1. IsFuller(gs, B, fs, A, since, until)
    BY <1>4, <1>5, <1>6 DEF IsFuller, AreThousandths
  <2>2. QED
    BY <2>1, LeftFalls
<1>8. s = Least(Scale - x, 99500) /\ t = Least(Scale - y, 99500)
  BY DEF Score
<1>9. m \in Nat /\ n \in Nat /\ m <= n
  <2> DEFINE rule == [i \in B |-> gs[i].rule]
  <2>1. Contributing(gs, cause) = {rule[i] : i \in B}
    BY DEF Contributing
  <2>2. Contributing(fs, cause) \in SUBSET Contributing(gs, cause)
    BY <1>4 DEF Contributing
  <2> HIDE DEF rule, B
  <2>3. IsFiniteSet(Contributing(gs, cause))
    BY <1>5, <2>1, ImageIsFinite
  <2>4. QED
    BY <2>2, <2>3, FS_Subset, FS_CardinalityType
<1> HIDE DEF x, y, s, t, m, n
<1>10. s \in Int /\ t \in Int /\ s <= t
  BY <1>7, <1>8 DEF Least, Scale
<1>11. Derive(s, m) <= Derive(t, n) /\ Derive(s, m) \in Nat /\ Derive(t, n) \in Nat
  <2>1. Derive(s, m) \in Nat /\ Derive(t, n) \in Nat
    BY DEF Derive, Low, Moderate, High, Certain
  <2>2. QED
    BY <1>9, <1>10, <2>1, DeriveRises
<1>12. cause \in Causes(gs)
  <2>1. PICK i \in DOMAIN fs : fs[i].cause = cause
    BY DEF Causes
  <2>2. QED
    BY <1>3, <2>1 DEF Causes
<1>13. t >= s /\ Derive(t, n) >= Derive(s, m)
  BY <1>10, <1>11
<1>14. QED
  BY <1>12, <1>13 DEF gs, s, t, m, n

(* A changepoint has the time of a crash.                                  *)
LEMMA OnsetIsTimed ==
  ASSUME TypeOK, WindowsAreTimed, onset = Analyse
  PROVE  onset = None \/ onset.at \in Int
<1> DEFINE n == Cardinality(windows)
<1>1. n \in Nat
  BY Counts
<1>2. CASE n < 2
  <2>1. onset = None
    BY <1>2, Zenon DEF Analyse, MinCrashesAfter
  <2>2. QED
    BY <2>1
<1>3. CASE ~(n < 2)
  <2>1. /\ Times \in Seq(Int) /\ Len(Times) = n
        /\ \A i, j \in 1 .. n : i <= j => Times[i] <= Times[j]
    BY TimesAreOrdered
  <2>2. Len(Times) # 0 /\ \A i, j \in 1 .. Len(Times) : i <= j => Times[i] <= Times[j]
    <3> HIDE DEF n
    <3> QED BY <1>1, <1>3, <2>1
  <2>3. PICK j \in 1 .. Len(Times) : BestSplit(Times) = Times[j]
    BY <2>1, <2>2, BestSplitIsSharpest
  <2>4. BestSplit(Times) \in Int
    <3> HIDE DEF n
    <3> QED BY <2>1, <2>3
  <2>5. onset = None \/ onset.at = BestSplit(Times)
    <3> DEFINE at == BestSplit(Times)
    <3> HIDE DEF at
    <3>1. Analyse = None \/ Analyse.at = at
      BY DEF Analyse, at
    <3>2. QED
      BY <3>1 DEF at
  <2>6. QED
    BY <2>4, <2>5
<1>4. QED
  BY <1>2, <1>3

(* What was found so far can be scored.                                    *)
ScoringInv == findings \in Seq(ToSet(findings)) /\ \A f \in ToSet(findings) : IsScorable(f)

(* A rule only adds to what was found, and nothing else changes that.      *)
LEMMA RulesOnlyAdd ==
  ASSUME TypeOK, OnsetInv, ScoringInv, [Next]_vars
  PROVE  \/ findings' = findings
         \/ \E S, order : /\ findings \in Seq(S) /\ order \in Seq(S) /\ \A f \in S : IsScorable(f)
                          /\ findings' = findings \o order
<1>1. CASE EvaluateRule
  <2> DEFINE rule == AllRules[evaluated']
             found == Evaluate(rule, report, onset)
             S == ToSet(findings) \cup found
  <2>1. report \in Reports /\ rule \in ToSet(AllRules)
    <3>1. evaluated' \in DOMAIN AllRules
      BY <1>1 DEF EvaluateRule, TypeOK, AllRules
    <3>2. QED
      BY <3>1 DEF TypeOK, ToSet
  <2>2. onset = None \/ onset.at \in Int
    <3>1. WindowsAreTimed
      BY WindowTimes DEF WindowsAreTimed, OnsetInv
    <3>2. onset = Analyse
      BY <1>1 DEF EvaluateRule, OnsetInv
    <3>3. QED
      BY <3>1, <3>2, OnsetIsTimed
  <2>3. PICK order \in Orders(found) : findings' = findings \o order
    BY <1>1 DEF EvaluateRule
  <2> HIDE DEF rule
  <2>4. IsFiniteSet(found) /\ \A f \in found : IsScorable(f)
    BY <2>1, <2>2, FindingsAre, FindingsAreScorable
  <2> HIDE DEF found
  <2>5. Cardinality(found) \in Nat /\ order \in [1 .. Cardinality(found) -> found]
    BY <2>3, <2>4, FS_CardinalityType DEF Orders, SetToSeqs
  <2>6. order \in Seq(S)
    <3>1. order \in [1 .. Cardinality(found) -> S]
      BY <2>5
    <3> HIDE DEF S
    <3>2. QED
      BY <2>5, <3>1
  <2>7. findings \in Seq(S) /\ \A f \in S : IsScorable(f)
    <3>1. \A i \in DOMAIN findings : findings[i] \in S
      BY DEF ToSet
    <3>2. findings \in Seq(S)
      BY <3>1 DEF ScoringInv
    <3>3. QED
      BY <2>4, <3>2 DEF ScoringInv
  <2> HIDE DEF S
  <2>8. QED
    BY <2>3, <2>6, <2>7
<1>2. CASE ~EvaluateRule
  BY <1>2 DEF Next, vars, CorrelateDumps, CorrelateEvent, Correlated, FindOnset, CombineFindings,
              Finished
<1>3. QED
  BY <1>1, <1>2

LEMMA InitScoring == Init => ScoringInv
<1>1. SUFFICES ASSUME Init PROVE ScoringInv
  OBVIOUS
<1>2. findings = <<>> /\ DOMAIN findings = {}
  BY <1>1 DEF Init
<1>3. ToSet(findings) = {}
  BY <1>2 DEF ToSet
<1>4. QED
  BY <1>2, <1>3 DEF ScoringInv

LEMMA NextScoring == TypeOK /\ OnsetInv /\ ScoringInv /\ [Next]_vars => ScoringInv'
<1> SUFFICES ASSUME TypeOK, OnsetInv, ScoringInv, [Next]_vars PROVE ScoringInv'
  OBVIOUS
<1>1. CASE findings' = findings
  BY <1>1 DEF ScoringInv
<1>2. ASSUME NEW S, NEW order \in Seq(S), findings \in Seq(S), \A f \in S : IsScorable(f),
             findings' = findings \o order
      PROVE  ScoringInv'
  <2> DEFINE gs == findings \o order
  <2>1. gs \in Seq(S)
    BY <1>2
  <2> HIDE DEF gs
  <2>2. \A i \in DOMAIN gs : gs[i] \in S /\ gs[i] \in ToSet(gs)
    BY <2>1 DEF ToSet
  <2>3. gs \in Seq(ToSet(gs))
    BY <2>1, <2>2
  <2>4. \A f \in ToSet(gs) : IsScorable(f)
    BY <1>2, <2>2 DEF ToSet
  <2>5. findings' = gs
    BY <1>2 DEF gs
  <2>6. QED
    BY <2>3, <2>4, <2>5 DEF ScoringInv
<1>3. QED
  BY <1>1, <1>2, RulesOnlyAdd

LEMMA StepRaisesScores ==
  TypeOK /\ OnsetInv /\ ScoringInv /\ [Next]_vars =>
    [\A cause \in Causes(findings) :
       /\ cause \in Causes(findings')
       /\ ScoreOf(findings', cause) >= ScoreOf(findings, cause)
       /\ ConfidenceOf(findings', cause) >= ConfidenceOf(findings, cause)]_findings
<1> SUFFICES ASSUME TypeOK, OnsetInv, ScoringInv, [Next]_vars, findings' # findings,
                    NEW cause \in Causes(findings)
             PROVE  /\ cause \in Causes(findings')
                    /\ ScoreOf(findings', cause) >= ScoreOf(findings, cause)
                    /\ ConfidenceOf(findings', cause) >= ConfidenceOf(findings, cause)
  OBVIOUS
<1>1. PICK S, order : /\ findings \in Seq(S) /\ order \in Seq(S) /\ \A f \in S : IsScorable(f)
                      /\ findings' = findings \o order
  BY RulesOnlyAdd
<1>2. report.since \in Int /\ report.until \in Int
  BY ReportsAreCollections DEF TypeOK
<1>3. QED
  BY <1>1, <1>2, MoreFindings DEF ScoreOf, ConfidenceOf

(* Noisy-OR is monotone: whatever findings a rule adds, of whatever weight *)
(* and age, no cause found before is lost, and none falls in score or in   *)
(* confidence.                                                             *)
THEOREM MoreEvidenceNeverSpeaksLess == Spec => ScoresOnlyRise
BY InitTypeOK, NextTypeOK, InitOnset, NextOnset, InitScoring, NextScoring, StepRaisesScores, PTL
DEF Spec, ScoresOnlyRise
=============================================================================
