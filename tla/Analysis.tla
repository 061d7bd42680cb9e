------------------------------- MODULE Analysis ----------------------------
(* From a finished collection to ranked causes: the post-processing of     *)
(* DiagnosticEngine::run (src/src/modules/core/engine.rs:222-247).         *)
(*                                                                         *)
(* Crashes are correlated first: every kernel dump gets a crash window,    *)
(* and then, marker by marker, every crash marker of the log that no       *)
(* window covers yet.  The times of the windows give the changepoint,      *)
(* where the crash rate rose.  The rules then read the report in the order *)
(* of their registration, and scoring combines what they found.            *)
(*                                                                         *)
(* A HashMap groups the findings of four rules, so their order is left     *)
(* open.  What a window shows of the log around it is not modelled.        *)
EXTENDS Scoring

CONSTANT Reports    \* the collections an analysis may start from

(* A clock that runs, and reports made of sequences of timed records.      *)
ASSUME ReportsAreCollections ==
  /\ Minute \in Nat \ {0} /\ Day \in Nat \ {0}
  /\ \A r \in Reports :
       /\ r.timeline \in Seq(ToSet(r.timeline))
       /\ r.crashes \in Seq(ToSet(r.crashes))
       /\ r.drivers \in Seq(ToSet(r.drivers))
       /\ \A e \in ToSet(r.timeline) : e.at \in Int
       /\ \A c \in ToSet(r.crashes) : c.at \in Int /\ c.source \in {"kernel", "user"}
       /\ r.changes \subseteq Int /\ r.since \in Int /\ r.until \in Int
       /\ r.faults \in Nat /\ r.failures \in Nat

(* A changepoint, and that None is none.                                   *)
Changepoints ==
  [at : Int, after : Nat, before : Int, stable : Nat, suspects : SUBSET Int]
ASSUME NoneIsNoChangepoint == None \notin Changepoints

VARIABLES
  report,     \* what was collected
  windows,    \* report.correlations, as a set: [at, from, item]
  marker,     \* events of the timeline correlated so far
  phase,      \* "dumps", "markers", "onset", "rules" or "done"
  onset,      \* report.changepoint
  evaluated,  \* rules evaluated so far
  findings,   \* what they found, in order
  causes      \* report.suspected_causes, ranked

vars == <<report, windows, marker, phase, onset, evaluated, findings, causes>>

Init ==
  /\ report \in Reports
  /\ windows = {}
  /\ marker = 0
  /\ phase = "dumps"
  /\ onset = None
  /\ evaluated = 0
  /\ findings = <<>>
  /\ causes = <<>>

(***************************************************************************)
(* Correlation.                                                            *)
(***************************************************************************)
Window(at, from, item) == [at |-> at, from |-> from, item |-> item]

SystemCrashes == Dumps(report, "kernel")

CorrelateDumps ==
  /\ phase = "dumps"
  /\ windows' = {Window(report.crashes[i].at, "dump", i) : i \in SystemCrashes}
  /\ phase' = "markers"
  /\ UNCHANGED <<report, marker, onset, evaluated, findings, causes>>

IsCrashMarker(e) == e.kind \in {"bugcheck", "shutdown"}

(* Mutant: only windows of dumps cover a marker.                           *)
Covered_ByDumps(e) == \E w \in windows : w.from = "dump" /\ Near(w.at, e.at)

Covered(e) == \E w \in windows : Near(w.at, e.at)

CorrelateEvent ==
  /\ phase = "markers"
  /\ marker < Len(report.timeline)
  /\ marker' = marker + 1
  /\ LET e == report.timeline[marker']
     IN windows' = IF IsCrashMarker(e) /\ ~Covered(e)
                   THEN windows \cup {Window(e.at, e.kind, marker')}
                   ELSE windows
  /\ UNCHANGED <<report, phase, onset, evaluated, findings, causes>>

Correlated ==
  /\ phase = "markers"
  /\ marker = Len(report.timeline)
  /\ phase' = "onset"
  /\ UNCHANGED <<report, windows, marker, onset, evaluated, findings, causes>>

(***************************************************************************)
(* The changepoint.                                                        *)
(***************************************************************************)
MinCrashesAfter == 2
SuspectDays == 3

(* The times of the crashes in ascending order; crashes may share a time.  *)
Earlier(t) == {w \in windows : w.at < t}
UpTo(t) == {w \in windows : w.at <= t}
Times ==
  [k \in 1 .. Cardinality(windows) |->
     CHOOSE t \in {w.at : w \in windows} :
       Cardinality(Earlier(t)) < k /\ k <= Cardinality(UpTo(t))]

(* Mutant: spans are not kept from being tiny.                             *)
Rise_NoFloor(times, i) ==
  LET spanBefore == Most(times[i] - times[1], 1)
      spanAfter == Most(times[Len(times)] - times[i], 1)
  IN [num |-> (Len(times) - i + 1) * spanBefore - (i - 1) * spanAfter,
      den |-> spanBefore * spanAfter]

(* How much the crash rate rises at the i-th crash, as a fraction: crashes *)
(* a day from it on, less crashes a day before it.  A span is never taken  *)
(* shorter than a day.                                                     *)
Rise(times, i) ==
  LET spanBefore == Most(times[i] - times[1], Day)
      spanAfter == Most(times[Len(times)] - times[i], Day)
  IN [num |-> (Len(times) - i + 1) * spanBefore - (i - 1) * spanAfter,
      den |-> spanBefore * spanAfter]

Steeper(r, s) == r.num * s.den > s.num * r.den

(* One pass over the crashes; no split leaves nothing after it.            *)
BestSplit(times) ==
  LET better(best, i) ==
        IF /\ times[Len(times)] > times[i]
           /\ Steeper(Rise(times, i), best.rise)
        THEN [at |-> times[i], rise |-> Rise(times, i)]
        ELSE best
  IN FoldLeftDomain(better, [at |-> times[1], rise |-> [num |-> 0, den |-> 1]], times).at

Suspects(at) == {c \in report.changes : Abs(c - at) <= SuspectDays * Day}

Analyse ==
  LET times == Times
      at == BestSplit(times)
      after == Cardinality({w \in windows : w.at >= at})
  IN IF Cardinality(windows) < MinCrashesAfter \/ after < MinCrashesAfter THEN None
     ELSE [at |-> at, after |-> after, before |-> Cardinality(windows) - after,
           stable |-> Most((at - report.since) \div Day, 0), suspects |-> Suspects(at)]

FindOnset ==
  /\ phase = "onset"
  /\ onset' = Analyse
  /\ phase' = "rules"
  /\ UNCHANGED <<report, windows, marker, evaluated, findings, causes>>

(***************************************************************************)
(* The rules and their combination.                                        *)
(***************************************************************************)
(* Findings on drivers come in the order of the inventory.                 *)
Orders(found) ==
  {order \in SetToSeqs(found) :
     \A i, j \in DOMAIN order :
       i < j => order[i].place <= order[j].place}

EvaluateRule ==
  /\ phase = "rules"
  /\ evaluated < Len(AllRules)
  /\ evaluated' = evaluated + 1
  /\ \E order \in Orders(Evaluate(AllRules[evaluated'], report, onset)) :
       findings' = findings \o order
  /\ UNCHANGED <<report, windows, marker, phase, onset, causes>>

CombineFindings ==
  /\ phase = "rules"
  /\ evaluated = Len(AllRules)
  /\ causes' = Ranked(Combine(findings, report.since, report.until))
  /\ phase' = "done"
  /\ UNCHANGED <<report, windows, marker, onset, evaluated, findings>>

(* The report is handed to its reader.                                     *)
Finished == phase = "done" /\ UNCHANGED vars

Next ==
  \/ CorrelateDumps
  \/ CorrelateEvent
  \/ Correlated
  \/ FindOnset
  \/ EvaluateRule
  \/ CombineFindings
  \/ Finished

Spec == Init /\ [][Next]_vars
(***************************************************************************)
(* What holds.                                                             *)
(***************************************************************************)
Phases == {"dumps", "markers", "onset", "rules", "done"}

(* Every variable has its type; the changepoint has crashes on both sides  *)
(* of the count it gives, and it is among the times of the windows.        *)
TypeOK ==
  /\ report \in Reports
  /\ \A w \in windows :
       \/ w.from = "dump" /\ w.item \in SystemCrashes /\ w.at = report.crashes[w.item].at
       \/ /\ w.from \in {"bugcheck", "shutdown"} /\ w.item \in 1 .. marker
          /\ w.at = report.timeline[w.item].at /\ w.from = report.timeline[w.item].kind
  /\ marker \in 0 .. Len(report.timeline)
  /\ phase \in Phases
  /\ evaluated \in 0 .. Len(AllRules)
  /\ phase \in {"dumps", "markers", "onset"} => onset = None /\ evaluated = 0
  /\ evaluated = 0 => findings = <<>>
  /\ phase # "done" => causes = <<>>

(* A crash leaves several markers in the log, and often a dump: two        *)
(* windows near each other are two dumps, never a crash counted twice.     *)
OneWindowPerCrash ==
  \A v, w \in windows : Near(v.at, w.at) /\ v # w => v.from = "dump" /\ w.from = "dump"

(* After correlation no crash is missing: every kernel dump and every      *)
(* crash marker is near a window, and what only stopped an application has *)
(* none.                                                                   *)
EveryCrashHasAWindow ==
  phase \in {"onset", "rules", "done"} =>
    /\ \A i \in SystemCrashes : Window(report.crashes[i].at, "dump", i) \in windows
    /\ \A i \in DOMAIN report.timeline :
         IsCrashMarker(report.timeline[i]) =>
           \E w \in windows : Near(w.at, report.timeline[i].at)

(* However the markers and dumps of crashes are spaced, each crash has its *)
(* window and no crash has two.                                            *)
CrashesAndWindowsMatch == OneWindowPerCrash /\ EveryCrashHasAWindow

(* The changepoint is found whenever two crashes were, at least two        *)
(* crashes follow it, no other split shows a greater rise of the crash     *)
(* rate, and no earlier one as great a rise.  The reference counts crashes *)
(* on either side by their times.                                          *)
RiseAt(t) ==
  LET first == Min({w.at : w \in windows})
      last == Max({w.at : w \in windows})
      before == Cardinality(Earlier(t))
      spanBefore == Most(t - first, Day)
      spanAfter == Most(last - t, Day)
  IN [num |-> (Cardinality(windows) - before) * spanBefore - before * spanAfter,
      den |-> spanBefore * spanAfter]

OnsetIsTheSharpestRise ==
  phase \in {"rules", "done"} =>
    /\ (onset # None) <=> Cardinality(windows) >= 2
    /\ onset # None =>
         /\ onset.after >= 2
         /\ \A v \in windows :
              /\ \E w \in windows : w.at > v.at
              /\ v.at # onset.at
              => /\ ~Steeper(RiseAt(v.at), RiseAt(onset.at))
                 /\ v.at < onset.at => Steeper(RiseAt(onset.at), RiseAt(v.at))

Reported == {causes[i].id : i \in DOMAIN causes}

(* Correlation and the power loss rule agree, though each looks at dumps   *)
(* in its own way: a window opened for a reset comes with a power loss     *)
(* verdict, and a power loss verdict with a window no dump explains.       *)
ResetsAreAccountedFor ==
  phase = "done" =>
    /\ (\E w \in windows : w.from = "shutdown") => Root("power-loss") \in Reported
    /\ Root("power-loss") \in Reported =>
         \E w \in windows : w.from # "dump" /\
           \E i \in Unexplained(report) : Near(w.at, report.timeline[i].at)

(* A healthy machine has no finding: background errors, devices that come  *)
(* and go, one crashed application, one monitoring tool, protections that  *)
(* are off, old firmware and recent changes are none.                      *)
Healthy(r) ==
  /\ \A i \in DOMAIN r.timeline : r.timeline[i].kind \in {"device", "other"}
  /\ Cardinality(Churn(r)) < ChurnEvents \/ Cardinality(Churn(r)) < ChurnPerDay * DaysOf(r)
  /\ Cardinality(Errors(r)) < TrendPerDay * DaysOf(r)
  /\ \A i \in DOMAIN r.crashes : r.crashes[i].source = "user"
  /\ \A i, j \in DOMAIN r.crashes : r.crashes[i].module = r.crashes[j].module => i = j
  /\ \A i \in DOMAIN r.drivers : ~r.drivers[i].unsigned /\ r.drivers[i].listed = "no"
  /\ \A i, j \in Contending(r) : i = j
  /\ r.faults = 0 /\ r.failures = 0

(* With one exception: the firmware rule alone of those that read a code   *)
(* does not ask what crashed, so an application whose exception code is    *)
(* one of those numbers makes it speak where the firmware is old.          *)
MistakenForAStop(r) ==
  r.firmware = "old" /\ \E i \in Dumps(r, "user") : r.crashes[i].code \in HardwareCodes

HealthyMachineIsSilent ==
  Healthy(report) =>
    /\ findings # <<>> => MistakenForAStop(report)
    /\ \A i \in DOMAIN findings : findings[i].rule = "FirmwareAge"

(* More evidence never speaks for a cause less: whatever another rule      *)
(* finds, no score and no confidence falls.                                *)
ScoreOf(fs, cause) == Score(fs, cause, report.since, report.until)
ConfidenceOf(fs, cause) == Derive(ScoreOf(fs, cause), Cardinality(Contributing(fs, cause)))

ScoresOnlyRise ==
  [][\A cause \in Causes(findings) :
       /\ cause \in Causes(findings')
       /\ ScoreOf(findings', cause) >= ScoreOf(findings, cause)
       /\ ConfidenceOf(findings', cause) >= ConfidenceOf(findings, cause)]_findings
=============================================================================
