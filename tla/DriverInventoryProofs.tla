----------------------- MODULE DriverInventoryProofs -----------------------
(***************************************************************************)
(* Machine-checked proofs about the driver inventory, for any number of    *)
(* images, services, modules and threads: its types, that the pool neither *)
(* loses nor doubles a candidate, that it implements DriverListing, that   *)
(* the merge keeps every load address, and that its status is honest.      *)
(***************************************************************************)
EXTENDS DriverInventory, SequenceTheorems, FunctionTheorems, FiniteSetTheorems, TLAPS

USE DEF sourceVars, poolVars, reportVars

-----------------------------------------------------------------------------
(* Sequences, element by element.                                          *)

LEMMA AppendElements ==
  ASSUME NEW S, NEW s \in Seq(S), NEW x \in S
  PROVE  /\ Append(s, x) \in Seq(S)
         /\ \A k \in DOMAIN Append(s, x) :
              \/ k \in DOMAIN s /\ Append(s, x)[k] = s[k]
              \/ k = Len(s) + 1 /\ Append(s, x)[k] = x
         /\ \A k \in DOMAIN s : k \in DOMAIN Append(s, x) /\ Append(s, x)[k] = s[k]
         /\ Len(s) + 1 \in DOMAIN Append(s, x)
         /\ Append(s, x)[Len(s) + 1] = x
BY AppendProperties

LEMMA ConcatElements ==
  ASSUME NEW S, NEW s \in Seq(S), NEW t \in Seq(S)
  PROVE  /\ s \o t \in Seq(S)
         /\ \A k \in DOMAIN (s \o t) :
              \/ k \in DOMAIN s /\ (s \o t)[k] = s[k]
              \/ k \in Int /\ k - Len(s) \in DOMAIN t /\ (s \o t)[k] = t[k - Len(s)]
         /\ \A k \in DOMAIN s : k \in DOMAIN (s \o t) /\ (s \o t)[k] = s[k]
         /\ \A k \in DOMAIN t : /\ k + Len(s) \in DOMAIN (s \o t)
                                /\ (s \o t)[k + Len(s)] = t[k]
<1> DEFINE c == s \o t
<1>1. /\ c \in Seq(S)
      /\ Len(c) = Len(s) + Len(t)
      /\ \A i \in 1 .. Len(s) + Len(t) : c[i] = IF i <= Len(s) THEN s[i] ELSE t[i - Len(s)]
  BY ConcatProperties
<1> HIDE DEF c
<1>2. /\ DOMAIN c = 1 .. Len(s) + Len(t) /\ DOMAIN s = 1 .. Len(s)
      /\ DOMAIN t = 1 .. Len(t) /\ Len(s) \in Nat /\ Len(t) \in Nat
  BY <1>1
<1>3. ASSUME NEW k \in DOMAIN c
      PROVE  \/ k \in DOMAIN s /\ c[k] = s[k]
             \/ k \in Int /\ k - Len(s) \in DOMAIN t /\ c[k] = t[k - Len(s)]
  BY <1>1, <1>2
<1>4. ASSUME NEW k \in DOMAIN s
      PROVE  k \in DOMAIN c /\ c[k] = s[k]
  BY <1>1, <1>2
<1>5. ASSUME NEW k \in DOMAIN t
      PROVE  k + Len(s) \in DOMAIN c /\ c[k + Len(s)] = t[k]
  BY <1>1, <1>2
<1>6. QED
  BY <1>1, <1>3, <1>4, <1>5 DEF c

LEMMA WorkerCountType == WorkerCount \in 1 .. 8 /\ 1 \in Workers
BY MachineAssumption DEF WorkerCount, Workers

-----------------------------------------------------------------------------
LEMMA TypeInit == Init => TypeOK
<1> SUFFICES ASSUME Init PROVE TypeOK
  OBVIOUS
<1>1. Len(candidates) = 0 /\ Len(modules) = 0 /\ 0 \in 0 .. 0
  BY DEF Init
<1>2. /\ modules \in Seq(Paths) /\ candidates \in Seq(Candidate)
      /\ results \in Seq(Positions) /\ drivers \in Seq(Positions)
  BY EmptySeq DEF Init
<1>3. local \in [Workers -> Seq(Positions)]
  BY EmptySeq DEF Init
<1>4. item \in [Workers -> 0 .. Len(candidates)]
  BY <1>1 DEF Init
<1>5. QED
  BY <1>1, <1>2, <1>3, <1>4 DEF Init, TypeOK

(* The type invariant without intervals.                                   *)
LEMMA PositionsType ==
  ASSUME TypeOK
  PROVE  /\ Len(candidates) \in Nat /\ Positions = DOMAIN candidates
         /\ 0 \in 0 .. Len(candidates) /\ 0 \in 0 .. Len(modules)
         /\ Len(modules) \in Nat /\ DOMAIN modules = 1 .. Len(modules)
         /\ merged \in Nat /\ merged <= Len(modules)
         /\ taken \in Nat /\ taken <= Len(candidates)
         /\ item \in [Workers -> Nat]
         /\ \A w \in Workers : item[w] \in Nat /\ item[w] <= Len(candidates)
<1>1. Len(candidates) \in Nat /\ Positions = DOMAIN candidates
  BY LenProperties DEF TypeOK, Positions
<1>2. modules \in Seq(Paths)
  BY DEF TypeOK
<1>3. Len(modules) \in Nat /\ DOMAIN modules = 1 .. Len(modules)
  BY <1>2, LenProperties
<1>4. /\ merged \in 0 .. Len(modules) /\ taken \in 0 .. Len(candidates)
      /\ item \in [Workers -> 0 .. Len(candidates)]
  BY DEF TypeOK
<1>5. \A w \in Workers : item[w] \in 0 .. Len(candidates)
  BY <1>4
<1>6. item \in [Workers -> Nat]
  BY <1>4, <1>5
<1>7. QED
  BY <1>1, <1>3, <1>4, <1>5, <1>6

LEMMA ElementsType ==
  ASSUME TypeOK
  PROVE  /\ results \in Seq(Positions)
         /\ \A k \in DOMAIN results : results[k] \in Nat /\ results[k] # 0
         /\ \A w \in Workers : local[w] \in Seq(Positions)
         /\ \A w \in Workers : \A k \in DOMAIN local[w] : local[w][k] \in Nat /\ local[w][k] # 0
<1>1. results \in Seq(Positions) /\ local \in [Workers -> Seq(Positions)]
  BY DEF TypeOK
<1>2. \A i \in Positions : i \in Nat /\ i # 0
  BY PositionsType DEF Positions
<1>3. \A s \in Seq(Positions) : \A k \in DOMAIN s : s[k] \in Positions
  OBVIOUS
<1>4. \A w \in Workers : local[w] \in Seq(Positions)
  BY <1>1
<1> HIDE DEF Positions
<1>5. QED
  BY <1>1, <1>2, <1>3, <1>4

LEMMA MergeType ==
  ASSUME TypeOK, NEW path \in Paths, Merge(path)
  PROVE  candidates' \in Seq(Candidate)
<1>1. Address[path] \in Nat
  BY MachineAssumption
<1>2. CASE candidates' = Append(candidates, [path |-> path, base |-> Address[path]])
  <2>1. [path |-> path, base |-> Address[path]] \in Candidate
    BY <1>1 DEF Candidate
  <2>2. candidates \in Seq(Candidate)
    BY DEF TypeOK
  <2>3. QED
    BY <1>2, <2>1, <2>2, AppendProperties
<1>3. ASSUME NEW i \in Positions,
             candidates' = [candidates EXCEPT ![i].base = Address[path]]
      PROVE  candidates' \in Seq(Candidate)
  <2>0. candidates \in Seq(Candidate) /\ i \in DOMAIN candidates
    BY PositionsType DEF TypeOK
  <2>1. [candidates[i] EXCEPT !.base = Address[path]] \in Candidate
    <3>1. candidates[i] \in Candidate
      BY <2>0
    <3>2. QED
      BY <1>1, <3>1 DEF Candidate
  <2>2. candidates' = [candidates EXCEPT ![i] = [candidates[i] EXCEPT !.base = Address[path]]]
    BY <1>3
  <2>3. QED
    BY <2>0, <2>1, <2>2
<1>4. QED
  BY <1>2, <1>3 DEF Merge

(* Before the pool starts nothing refers to a candidate yet.               *)
LEMMA EarlyTypes ==
  ASSUME TypeOK, ThreadState, collector \in {"query", "enumerate", "merge"},
         candidates' \in Seq(Candidate), UNCHANGED <<poolVars, reportVars>>
  PROVE  /\ taken' \in 0 .. Len(candidates')
         /\ item' \in [Workers -> 0 .. Len(candidates')]
         /\ local' \in [Workers -> Seq(Positions')]
         /\ results' \in Seq(Positions')
         /\ drivers' \in Seq(Positions')
<1>1. Len(candidates') \in Nat
  BY LenProperties
<1>2. /\ taken = 0 /\ results = <<>> /\ drivers = <<>>
      /\ \A w \in Workers : item[w] = 0 /\ local[w] = <<>>
  BY DEF ThreadState
<1>3. <<>> \in Seq(Positions')
  BY EmptySeq
<1>4. item = [w \in Workers |-> 0] /\ local = [w \in Workers |-> <<>>]
  BY <1>2 DEF TypeOK
<1>5. 0 \in 0 .. Len(candidates')
  BY <1>1
<1>6. item' \in [Workers -> 0 .. Len(candidates')]
  BY <1>4, <1>5
<1>7. local' \in [Workers -> Seq(Positions')]
  BY <1>3, <1>4
<1>8. QED
  BY <1>2, <1>3, <1>5, <1>6, <1>7

LEMMA TypeStep == TypeOK /\ ThreadState /\ [Next]_vars => TypeOK'
<1> SUFFICES ASSUME TypeOK, ThreadState, [Next]_vars PROVE TypeOK'
  OBVIOUS
<1>1. CASE QueryServices
  <2>1. candidates' \in Seq(Candidate)
    BY <1>1 DEF QueryServices, Listings, Candidate
  <2>2. QED
    BY <1>1, <2>1, EarlyTypes DEF QueryServices, TypeOK
<1>2. CASE QueryFails
  BY <1>2 DEF QueryFails, TypeOK, Positions
<1>3. CASE EnumerateModules
  <2>1. PICK n \in 0 .. MaxLoaded : modules' \in [1 .. n -> Paths]
    BY <1>3 DEF EnumerateModules, Listings
  <2>2. modules' \in Seq(Paths) /\ Len(modules') \in Nat
    BY <2>1, MachineAssumption
  <2>3. merged = 0
    BY <1>3 DEF EnumerateModules, ThreadState
  <2>4. merged' = 0 /\ 0 \in 0 .. Len(modules')
    BY <1>3, <2>2, <2>3 DEF EnumerateModules
  <2>5. QED
    BY <1>3, <2>2, <2>4 DEF EnumerateModules, TypeOK, Positions
<1>4. CASE MergeModule
  <2>1. merged + 1 \in 1 .. Len(modules) /\ modules[merged + 1] \in Paths
    <3>1. Len(modules) \in Nat /\ merged \in Nat /\ merged < Len(modules)
      BY <1>4, PositionsType DEF MergeModule
    <3>2. modules \in Seq(Paths)
      BY DEF TypeOK
    <3>3. merged + 1 \in 1 .. Len(modules)
      BY <3>1
    <3>4. QED
      BY <3>2, <3>3
  <2>2. candidates' \in Seq(Candidate)
    BY <1>4, <2>1, MergeType DEF MergeModule
  <2>3. QED
    <3>1. modules' = modules /\ merged' \in 0 .. Len(modules) /\ collector' = collector
      BY <1>4, PositionsType DEF MergeModule
    <3>2. /\ taken' \in 0 .. Len(candidates')
          /\ item' \in [Workers -> 0 .. Len(candidates')]
          /\ local' \in [Workers -> Seq(Positions')]
          /\ results' \in Seq(Positions') /\ drivers' \in Seq(Positions')
      BY <1>4, <2>2, EarlyTypes DEF MergeModule
    <3>3. QED
      BY <1>4, <2>2, <3>1, <3>2 DEF MergeModule, TypeOK
<1>5. CASE SpawnWorkers
  BY <1>5 DEF SpawnWorkers, TypeOK, Positions
<1>6. CASE ScopePanics
  BY <1>6 DEF ScopePanics, TypeOK, Positions
<1>7. CASE Report
  <2>1. status' \in {"none", "complete", "partial: services unknown",
                     "partial: addresses hidden, run as Administrator"}
    BY <1>7 DEF Report, Status
  <2>2. PICK order \in [DOMAIN results -> DOMAIN results] :
          drivers' = [k \in DOMAIN results |-> results[order[k]]]
    BY <1>7 DEF Report
  <2>3. drivers' \in Seq(Positions)
    <3>1. results \in Seq(Positions)
      BY DEF TypeOK
    <3>2. DOMAIN results = 1 .. Len(results) /\ Len(results) \in Nat
      BY <3>1
    <3>3. \A k \in DOMAIN results : results[order[k]] \in Positions
      BY <3>1, <2>2
    <3>4. drivers' \in [1 .. Len(results) -> Positions]
      BY <2>2, <3>2, <3>3
    <3>5. QED
      BY <3>2, <3>4
  <2>4. QED
    BY <1>7, <2>1, <2>3 DEF Report, TypeOK, Positions
<1>8. ASSUME NEW w \in Workers, Take(w) PROVE TypeOK'
  <2>1. taken' \in 0 .. Len(candidates)
    BY <1>8, PositionsType DEF Take
  <2>2. item' \in [Workers -> 0 .. Len(candidates)]
    BY <1>8, <2>1 DEF Take, TypeOK
  <2>3. QED
    BY <1>8, <2>1, <2>2 DEF Take, TypeOK, Positions
<1>9. ASSUME NEW w \in Workers, QueueEmpty(w) PROVE TypeOK'
  BY <1>9 DEF QueueEmpty, TypeOK, Positions
<1>10. ASSUME NEW w \in Workers, Enrich(w) PROVE TypeOK'
  <2>1. item[w] \in Positions
    <3>1. item[w] \in 0 .. Len(candidates) /\ item[w] # 0
      BY <1>10 DEF Enrich, TypeOK, ThreadState
    <3>2. QED
      BY <3>1, PositionsType DEF Positions
  <2>2. Append(local[w], item[w]) \in Seq(Positions)
    BY <2>1, AppendProperties DEF TypeOK
  <2> DEFINE longer == Append(local[w], item[w])
  <2>3. local' = [local EXCEPT ![w] = longer]
    BY <1>10 DEF Enrich, TypeOK
  <2> HIDE DEF longer
  <2>4. local' \in [Workers -> Seq(Positions)]
    BY <2>2, <2>3 DEF TypeOK, longer
  <2>5. QED
    <3>1. item' \in [Workers -> 0 .. Len(candidates)]
      BY <1>10, PositionsType DEF Enrich, TypeOK
    <3>2. QED
      BY <1>10, <2>4, <3>1 DEF Enrich, TypeOK, Positions
<1>11. ASSUME NEW w \in Workers, EnrichPanics(w) PROVE TypeOK'
  <2>1. item' \in [Workers -> 0 .. Len(candidates)]
    BY <1>11, PositionsType DEF EnrichPanics, TypeOK
  <2>2. local' \in [Workers -> Seq(Positions)]
    BY <1>11, EmptySeq DEF EnrichPanics, TypeOK
  <2>3. QED
    BY <1>11, <2>1, <2>2 DEF EnrichPanics, TypeOK, Positions
<1>12. ASSUME NEW w \in Workers, Publish(w) PROVE TypeOK'
  <2>1. results' \in Seq(Positions)
    BY <1>12, ConcatProperties DEF Publish, TypeOK
  <2>2. QED
    BY <1>12, <2>1, EmptySeq DEF Publish, TypeOK, Positions
<1>13. CASE UNCHANGED vars
  BY <1>13 DEF vars, TypeOK, Positions
<1>14. QED
  BY <1>1, <1>2, <1>3, <1>4, <1>5, <1>6, <1>7, <1>8, <1>9, <1>10, <1>11, <1>12, <1>13
  DEF Next, Collector, Sources, Pool, Finished

-----------------------------------------------------------------------------
(* The pool keeps every candidate in one place.                            *)

LEMMA PoolInit == Init => PoolInv
<1> SUFFICES ASSUME Init PROVE PoolInv
  OBVIOUS
<1>1. /\ taken = 0 /\ results = <<>> /\ drivers = <<>> /\ merged = 0
      /\ collector = "query"
      /\ \A w \in Workers : worker[w] = "unborn" /\ item[w] = 0 /\ local[w] = <<>>
  BY DEF Init
<1>2. DOMAIN <<>> = {} /\ 1 .. 0 = {}
  OBVIOUS
<1>3. Apart
  BY <1>1, <1>2 DEF Apart
<1>4. OnlyTaken
  BY <1>1, <1>2 DEF OnlyTaken
<1>5. AllKept
  BY <1>1, <1>2 DEF AllKept
<1>6. ThreadState
  BY <1>1 DEF ThreadState, Spawned
<1>7. QED
  BY <1>3, <1>4, <1>5, <1>6 DEF PoolInv

(* A step of the collector that leaves the pool alone.                     *)
LEMMA PoolUntouched ==
  ASSUME PoolInv, UNCHANGED <<taken, item, local, results>>,
         \A w \in Workers : worker[w] = "panicked" => worker'[w] = "panicked"
  PROVE  Apart' /\ OnlyTaken' /\ AllKept'
<1>1. Apart'
  BY DEF PoolInv, Apart
<1>2. OnlyTaken'
  BY DEF PoolInv, OnlyTaken
<1>3. AllKept'
  BY DEF PoolInv, AllKept
<1>4. QED
  BY <1>1, <1>2, <1>3

LEMMA TakeKeepsPool ==
  ASSUME TypeOK, PoolInv, NEW w \in Workers, Take(w)
  PROVE  PoolInv'
<1>1. /\ taken' = taken + 1 /\ item' = [item EXCEPT ![w] = taken + 1]
      /\ UNCHANGED <<local, results, candidates, collector, drivers, merged>>
      /\ worker' = [worker EXCEPT ![w] = "enrich"]
      /\ worker[w] = "take" /\ taken < Len(candidates) /\ taken \in Nat
  BY PositionsType DEF Take
<1>2. /\ \A v \in Workers : item[v] \in Nat /\ item[v] <= taken
      /\ \A v \in Workers : \A k \in DOMAIN local[v] : local[v][k] \in Nat /\ local[v][k] <= taken
      /\ \A k \in DOMAIN results : results[k] \in Nat /\ results[k] <= taken
  BY PositionsType, ElementsType DEF PoolInv, OnlyTaken
<1>3. /\ item'[w] = taken + 1 /\ \A v \in Workers \ {w} : item'[v] = item[v]
      /\ worker'[w] = "enrich" /\ \A v \in Workers \ {w} : worker'[v] = worker[v]
  BY <1>1 DEF TypeOK
<1>4. Apart'
  BY <1>1, <1>2, <1>3 DEF PoolInv, Apart
<1>5. OnlyTaken'
  BY <1>1, <1>2, <1>3 DEF OnlyTaken
<1>6. AllKept'
  BY <1>1, <1>2, <1>3 DEF PoolInv, AllKept, ThreadState
<1>7. ThreadState'
  BY <1>1, <1>3 DEF PoolInv, ThreadState, Spawned
<1>8. QED
  BY <1>4, <1>5, <1>6, <1>7 DEF PoolInv

LEMMA EnrichKeepsPool ==
  ASSUME TypeOK, PoolInv, NEW w \in Workers, Enrich(w)
  PROVE  PoolInv'
<1> DEFINE longer == Append(local[w], item[w])
<1>1. /\ worker[w] = "enrich"
      /\ worker' = [worker EXCEPT ![w] = "take"]
      /\ item' = [item EXCEPT ![w] = 0]
      /\ local' = [local EXCEPT ![w] = longer]
      /\ UNCHANGED <<taken, results, candidates, collector, drivers, merged>>
  BY DEF Enrich
<1>2. item[w] # 0 /\ item[w] \in Positions
  BY <1>1, PositionsType DEF PoolInv, ThreadState, Positions
<1>3. /\ \A k \in DOMAIN longer :
           \/ k \in DOMAIN local[w] /\ longer[k] = local[w][k]
           \/ k = Len(local[w]) + 1 /\ longer[k] = item[w]
      /\ \A k \in DOMAIN local[w] : k \in DOMAIN longer /\ longer[k] = local[w][k]
      /\ Len(local[w]) + 1 \in DOMAIN longer /\ longer[Len(local[w]) + 1] = item[w]
  <2>1. local[w] \in Seq(Positions)
    BY ElementsType
  <2>2. QED
    BY <1>2, <2>1, AppendElements
<1> HIDE DEF longer
<1>4. /\ item'[w] = 0 /\ \A v \in Workers \ {w} : item'[v] = item[v]
      /\ worker'[w] = "take" /\ \A v \in Workers \ {w} : worker'[v] = worker[v]
      /\ local'[w] = longer /\ \A v \in Workers \ {w} : local'[v] = local[v]
  BY <1>1 DEF TypeOK
<1>5. \A v \in Workers : \A k \in DOMAIN local[v] : local[v][k] # 0
  BY ElementsType
<1>6. \A k \in DOMAIN results : results[k] # 0
  BY ElementsType
<1>7. Apart'
  <2> USE <1>1, <1>2, <1>3, <1>4, <1>5, <1>6 DEF PoolInv, Apart
  <2>1. \A u, v \in Workers : item'[u] = item'[v] /\ item'[u] # 0 => u = v
    OBVIOUS
  <2>2. \A u, v \in Workers : \A k \in DOMAIN local'[v] : item'[u] # local'[v][k]
    OBVIOUS
  <2>3. \A v \in Workers : \A k \in DOMAIN results' : item'[v] # results'[k]
    OBVIOUS
  <2>4. \A u, v \in Workers : \A j \in DOMAIN local'[u], k \in DOMAIN local'[v] :
          local'[u][j] = local'[v][k] => u = v /\ j = k
    OBVIOUS
  <2>5. \A v \in Workers : \A j \in DOMAIN local'[v], k \in DOMAIN results' :
          local'[v][j] # results'[k]
    OBVIOUS
  <2>6. \A j, k \in DOMAIN results' : results'[j] = results'[k] => j = k
    OBVIOUS
  <2>7. QED
    BY <2>1, <2>2, <2>3, <2>4, <2>5, <2>6
<1>8. OnlyTaken'
  BY <1>1, <1>3, <1>4, PositionsType DEF PoolInv, OnlyTaken
<1>9. AllKept'
  BY <1>1, <1>3, <1>4 DEF PoolInv, AllKept
<1>10. ThreadState'
  BY <1>1, <1>4 DEF PoolInv, ThreadState, Spawned
<1>11. QED
  BY <1>7, <1>8, <1>9, <1>10 DEF PoolInv

LEMMA PanicKeepsPool ==
  ASSUME TypeOK, PoolInv, NEW w \in Workers, EnrichPanics(w)
  PROVE  PoolInv'
<1>1. /\ worker[w] = "enrich"
      /\ worker' = [worker EXCEPT ![w] = "panicked"]
      /\ item' = [item EXCEPT ![w] = 0]
      /\ local' = [local EXCEPT ![w] = <<>>]
      /\ UNCHANGED <<taken, results, candidates, collector, drivers, merged>>
  BY DEF EnrichPanics
<1>2. /\ item'[w] = 0 /\ \A v \in Workers \ {w} : item'[v] = item[v]
      /\ worker'[w] = "panicked" /\ \A v \in Workers \ {w} : worker'[v] = worker[v]
      /\ local'[w] = <<>> /\ \A v \in Workers \ {w} : local'[v] = local[v]
  BY <1>1 DEF TypeOK
<1>3. /\ DOMAIN local'[w] = {}
      /\ \A v \in Workers : \A k \in DOMAIN local[v] : local[v][k] # 0
      /\ \A k \in DOMAIN results : results[k] # 0
  BY <1>2, ElementsType
<1>4. Apart'
  BY <1>1, <1>2, <1>3 DEF PoolInv, Apart
<1>5. OnlyTaken'
  BY <1>1, <1>2, <1>3, PositionsType DEF PoolInv, OnlyTaken
<1>6. AllKept'
  BY <1>2 DEF AllKept
<1>7. ThreadState'
  BY <1>1, <1>2 DEF PoolInv, ThreadState, Spawned
<1>8. QED
  BY <1>4, <1>5, <1>6, <1>7 DEF PoolInv

LEMMA PublishKeepsPool ==
  ASSUME TypeOK, PoolInv, NEW w \in Workers, Publish(w)
  PROVE  PoolInv'
<1> DEFINE all == results \o local[w]
<1>1. /\ worker[w] = "publish"
      /\ worker' = [worker EXCEPT ![w] = "ended"]
      /\ local' = [local EXCEPT ![w] = <<>>]
      /\ results' = all
      /\ UNCHANGED <<taken, item, candidates, collector, drivers, merged>>
  BY DEF Publish
<1>2. /\ \A k \in DOMAIN all :
           \/ k \in DOMAIN results /\ all[k] = results[k]
           \/ k \in Int /\ k - Len(results) \in DOMAIN local[w] /\ all[k] = local[w][k - Len(results)]
      /\ \A k \in DOMAIN results : k \in DOMAIN all /\ all[k] = results[k]
      /\ \A k \in DOMAIN local[w] : /\ k + Len(results) \in DOMAIN all
                                    /\ all[k + Len(results)] = local[w][k]
  <2>1. results \in Seq(Positions) /\ local[w] \in Seq(Positions)
    BY ElementsType
  <2>2. QED
    BY <2>1, ConcatElements
<1> HIDE DEF all
<1>3. Len(results) \in Nat
  BY LenProperties DEF TypeOK
<1>4. /\ worker'[w] = "ended" /\ \A v \in Workers \ {w} : worker'[v] = worker[v]
      /\ local'[w] = <<>> /\ \A v \in Workers \ {w} : local'[v] = local[v]
  BY <1>1 DEF TypeOK
<1>10. DOMAIN local'[w] = {}
  BY <1>4
<1>5. Apart'
  <2> USE <1>1, <1>2, <1>3, <1>4, <1>10 DEF PoolInv, Apart
  <2>1. \A u, v \in Workers : \A k \in DOMAIN local'[v] : item'[u] # local'[v][k]
    OBVIOUS
  <2>2. \A v \in Workers : \A k \in DOMAIN results' : item'[v] # results'[k]
    OBVIOUS
  <2>3. \A u, v \in Workers : \A j \in DOMAIN local'[u], k \in DOMAIN local'[v] :
          local'[u][j] = local'[v][k] => u = v /\ j = k
    OBVIOUS
  <2>4. \A v \in Workers : \A j \in DOMAIN local'[v], k \in DOMAIN results' :
          local'[v][j] # results'[k]
    OBVIOUS
  <2>5. ASSUME NEW j \in DOMAIN results', NEW k \in DOMAIN results', results'[j] = results'[k]
        PROVE  j = k
    BY <2>5
  <2>6. QED
    BY <2>1, <2>2, <2>3, <2>4, <2>5
<1>6. OnlyTaken'
  BY <1>1, <1>2, <1>4, <1>10 DEF PoolInv, OnlyTaken
<1>7. AllKept'
  BY <1>1, <1>2, <1>4, <1>10 DEF PoolInv, AllKept
<1>8. ThreadState'
  BY <1>1, <1>4 DEF PoolInv, ThreadState, Spawned
<1>9. QED
  BY <1>5, <1>6, <1>7, <1>8 DEF PoolInv

LEMMA QueueEmptyKeepsPool ==
  ASSUME TypeOK, PoolInv, NEW w \in Workers, QueueEmpty(w)
  PROVE  PoolInv'
<1>1. /\ worker[w] = "take" /\ taken = Len(candidates)
      /\ worker' = [worker EXCEPT ![w] = "publish"]
      /\ UNCHANGED <<taken, item, local, results, candidates, collector, drivers, merged>>
  BY DEF QueueEmpty
<1>2. worker'[w] = "publish" /\ \A v \in Workers \ {w} : worker'[v] = worker[v]
  BY <1>1 DEF TypeOK
<1>3. Apart' /\ OnlyTaken' /\ AllKept'
  BY <1>1, <1>2, PoolUntouched
<1>4. ThreadState'
  BY <1>1, <1>2 DEF PoolInv, ThreadState, Spawned
<1>5. QED
  BY <1>3, <1>4 DEF PoolInv

(* While the sources are read there is no pool.                            *)
LEMMA SourcesKeepPool ==
  ASSUME PoolInv, Sources
  PROVE  PoolInv'
<1>1. /\ collector \in {"query", "enumerate", "merge"}
      /\ collector' \in {"enumerate", "merge"}
      /\ UNCHANGED <<poolVars, reportVars>>
      /\ collector' = "enumerate" => merged' = merged /\ collector = "query"
  BY DEF Sources, QueryServices, QueryFails, EnumerateModules, MergeModule
<1>2. Apart' /\ OnlyTaken' /\ AllKept'
  BY <1>1, PoolUntouched
<1>3. ThreadState'
  BY <1>1 DEF PoolInv, ThreadState, Spawned
<1>4. QED
  BY <1>2, <1>3 DEF PoolInv

LEMMA SpawnKeepsPool ==
  ASSUME TypeOK, PoolInv, SpawnWorkers
  PROVE  PoolInv'
<1>1. /\ collector = "merge" /\ collector' = "wait"
      /\ \A w \in Workers : worker[w] = "unborn"
      /\ \A w \in Spawned : worker'[w] = "take"
      /\ \A w \in Workers : worker'[w] \in {"take", "ended"}
      /\ \A w \in Workers : item[w] = 0 /\ local[w] = <<>>
      /\ UNCHANGED <<taken, item, local, results, candidates, drivers, merged>>
  BY DEF SpawnWorkers, PoolInv, ThreadState, Spawned
<1>2. Apart' /\ OnlyTaken' /\ AllKept'
  BY <1>1, PoolUntouched
<1>3. ThreadState'
  <2>1. Spawned' = Spawned
    BY <1>1 DEF Spawned
  <2>2. \A w \in Spawned' : worker'[w] = "take"
    BY <1>1, <2>1
  <2>3. drivers' = <<>>
    BY <1>1 DEF PoolInv, ThreadState
  <2>4. QED
    BY <1>1, <2>2, <2>3 DEF ThreadState
<1>4. QED
  BY <1>2, <1>3 DEF PoolInv

LEMMA PoolStep == TypeOK /\ PoolInv /\ [Next]_vars => PoolInv'
<1> SUFFICES ASSUME TypeOK, PoolInv, [Next]_vars PROVE PoolInv'
  OBVIOUS
<1>1. CASE Sources
  BY <1>1, SourcesKeepPool
<1>2. CASE SpawnWorkers
  BY <1>2, SpawnKeepsPool
<1>3. CASE ScopePanics \/ Report
  <2>1. /\ collector = "wait" /\ collector' \in {"done", "panicked"}
        /\ collector' = "panicked" => drivers' = drivers
        /\ UNCHANGED <<sourceVars, poolVars>>
    BY <1>3 DEF ScopePanics, Report
  <2>2. Apart' /\ OnlyTaken' /\ AllKept'
    BY <2>1, PoolUntouched
  <2>3. ThreadState'
    BY <2>1 DEF PoolInv, ThreadState, Spawned
  <2>4. QED
    BY <2>2, <2>3 DEF PoolInv
<1>4. ASSUME NEW w \in Workers, Pool(w) PROVE PoolInv'
  BY <1>4, TakeKeepsPool, QueueEmptyKeepsPool, EnrichKeepsPool, PanicKeepsPool,
     PublishKeepsPool DEF Pool
<1>5. CASE UNCHANGED vars
  <2>1. Apart' /\ OnlyTaken' /\ AllKept'
    BY <1>5, PoolUntouched DEF vars
  <2>2. ThreadState'
    BY <1>5 DEF vars, PoolInv, ThreadState, Spawned
  <2>3. QED
    BY <2>1, <2>2 DEF PoolInv
<1>6. QED
  BY <1>1, <1>2, <1>3, <1>4, <1>5 DEF Next, Collector, Finished

LEMMA PoolInvariant == Spec => [](TypeOK /\ PoolInv)
<1>1. Init => TypeOK /\ PoolInv
  BY TypeInit, PoolInit
<1>2. TypeOK /\ PoolInv /\ [Next]_vars => (TypeOK /\ PoolInv)'
  BY TypeStep, PoolStep DEF PoolInv
<1>3. QED
  BY <1>1, <1>2, PTL DEF Spec

(* Every variable of the inventory keeps its type, for any machine.        *)
THEOREM TypeCorrect == Spec => []TypeOK
BY PoolInvariant, PTL

LEMMA PlacesAre ==
  ASSUME NEW i, NEW p \in Places(i)
  PROVE  \/ \E w \in Workers : p = <<w, 0>> /\ item[w] = i
         \/ \E w \in Workers : \E k \in DOMAIN local[w] : p = <<w, k>> /\ local[w][k] = i
         \/ \E k \in DOMAIN results : p = <<0, k>> /\ results[k] = i
<1>1. CASE p \in InHand(i)
  BY <1>1 DEF InHand
<1>2. CASE p \in InLists(i)
  <2>1. PICK w \in Workers : p \in InList(w, i)
    BY <1>2 DEF InLists
  <2>2. QED
    BY <2>1 DEF InList
<1>3. CASE p \in Shared(i)
  BY <1>3 DEF Shared
<1>4. QED
  BY <1>1, <1>2, <1>3 DEF Places

LEMMA OnePlace ==
  ASSUME TypeOK, PoolInv, NEW i \in Positions, NEW p \in Places(i), NEW q \in Places(i)
  PROVE  p = q
<1>1. i # 0
  BY PositionsType DEF Positions
<1>2. CASE \E w \in Workers : p = <<w, 0>> /\ item[w] = i
  BY <1>1, <1>2, PlacesAre DEF PoolInv, Apart
<1>3. CASE \E w \in Workers : \E k \in DOMAIN local[w] : p = <<w, k>> /\ local[w][k] = i
  BY <1>1, <1>3, PlacesAre DEF PoolInv, Apart
<1>4. CASE \E k \in DOMAIN results : p = <<0, k>> /\ results[k] = i
  BY <1>1, <1>4, PlacesAre DEF PoolInv, Apart
<1>5. QED
  BY <1>2, <1>3, <1>4, PlacesAre

LEMMA EachOnceHolds == TypeOK /\ PoolInv => EachOnce
<1> SUFFICES ASSUME TypeOK, PoolInv, NEW i \in Positions
             PROVE  /\ i > taken => Places(i) = {}
                    /\ \A p, q \in Places(i) : p = q
                    /\ i <= taken /\ Places(i) = {} => \E w \in Workers : worker[w] = "panicked"
  BY DEF EachOnce
<1>0. i \in Nat /\ i # 0 /\ taken \in Nat
  BY PositionsType DEF Positions
<1>1. ASSUME i > taken, NEW p \in Places(i) PROVE FALSE
  BY <1>0, <1>1, PlacesAre, PositionsType, ElementsType DEF PoolInv, OnlyTaken
<1>2. \A p, q \in Places(i) : p = q
  BY OnePlace
<1>3. ASSUME i <= taken, Places(i) = {}
      PROVE  \E w \in Workers : worker[w] = "panicked"
  <2>1. i \in 1 .. taken
    BY <1>0, <1>3
  <2>2. /\ \A w \in Workers : item[w] # i
        /\ \A w \in Workers : \A k \in DOMAIN local[w] : local[w][k] # i
        /\ \A k \in DOMAIN results : results[k] # i
    <3>1. ASSUME NEW w \in Workers, item[w] = i PROVE FALSE
      <4>1. <<w, 0>> \in InHand(i)
        BY <3>1 DEF InHand
      <4>2. QED
        BY <4>1, <1>3 DEF Places
    <3>2. ASSUME NEW w \in Workers, NEW k \in DOMAIN local[w], local[w][k] = i PROVE FALSE
      <4>1. <<w, k>> \in InList(w, i)
        BY <3>2 DEF InList
      <4>2. <<w, k>> \in InLists(i)
        BY <4>1 DEF InLists
      <4>3. QED
        BY <4>2, <1>3 DEF Places
    <3>3. ASSUME NEW k \in DOMAIN results, results[k] = i PROVE FALSE
      <4>1. <<0, k>> \in Shared(i)
        BY <3>3 DEF Shared
      <4>2. QED
        BY <4>1, <1>3 DEF Places
    <3>4. QED
      BY <3>1, <3>2, <3>3
  <2>3. QED
    BY <2>1, <2>2 DEF PoolInv, AllKept
<1>4. QED
  BY <1>1, <1>2, <1>3

(* The threads of the pool never lose, skip or double a driver, whatever   *)
(* their number and however they interleave: a candidate that was taken is *)
(* in exactly one place unless a thread panicked.                          *)
THEOREM EachCandidateOnce == Spec => []EachOnce
BY PoolInvariant, EachOnceHolds, PTL

(* One panic costs one share: if a thread survives, the queue is drained.  *)
THEOREM SurvivorsDrain == Spec => []SurvivorsDrainTheQueue
<1>1. TypeOK /\ PoolInv => SurvivorsDrainTheQueue
  BY DEF PoolInv, ThreadState, SurvivorsDrainTheQueue
<1>2. QED
  BY <1>1, PoolInvariant, PTL

-----------------------------------------------------------------------------
(* The inventory implements DriverListing.                                 *)

LEMMA ResultsAreAll ==
  ASSUME TypeOK, PoolInv, Ended = Workers, \A w \in Workers : worker[w] # "panicked"
  PROVE  /\ \A i \in Positions : \E k \in DOMAIN results : results[k] = i
         /\ Len(results) = Len(candidates)
<1>1. \A w \in Workers : worker[w] = "ended"
  BY DEF Ended
<1>2. \A w \in Workers : item[w] = 0 /\ local[w] = <<>>
  BY <1>1 DEF PoolInv, ThreadState
<1>3. taken = Len(candidates)
  BY <1>1, WorkerCountType DEF PoolInv, ThreadState, Spawned
<1>4. ASSUME NEW i \in Positions
      PROVE  \E k \in DOMAIN results : results[k] = i
  <2>1. i \in 1 .. taken /\ i # 0
    BY <1>3, PositionsType DEF Positions
  <2>2. \A w \in Workers : \A k \in DOMAIN local[w] : FALSE
    BY <1>2
  <2>3. QED
    BY <1>1, <1>2, <2>1, <2>2 DEF PoolInv, AllKept
<1>5. results \in [1 .. Len(results) -> Positions] /\ Len(results) \in Nat
  BY ElementsType, LenProperties
<1>6. results \in Bijection(1 .. Len(results), Positions)
  <2>1. \A j, k \in 1 .. Len(results) : results[j] = results[k] => j = k
    BY <1>5 DEF PoolInv, Apart
  <2>2. \A i \in Positions : \E k \in 1 .. Len(results) : results[k] = i
    BY <1>4, <1>5
  <2>3. QED
    BY <1>5, <2>1, <2>2, Fun_IsBij
<1>7. ASSUME NEW n \in Nat
      PROVE  Cardinality(1 .. n) = n /\ IsFiniteSet(1 .. n)
  <2>1. 1 \in Int /\ n \in Int
    BY <1>7
  <2>2. /\ Cardinality(1 .. n) = IF 1 > n THEN 0 ELSE n - 1 + 1
        /\ IsFiniteSet(1 .. n)
    BY <2>1, FS_Interval
  <2>3. QED
    BY <2>2
<1>8. Cardinality(Positions) = Len(candidates)
  BY <1>7, PositionsType DEF Positions
<1>9. Cardinality(Positions) = Cardinality(1 .. Len(results))
  BY <1>5, <1>6, <1>7, FS_Bijection DEF ExistsBijection
<1>10. QED
  BY <1>4, <1>5, <1>7, <1>8, <1>9

LEMMA ReportArranges ==
  ASSUME TypeOK, TypeOK', PoolInv, Report
  PROVE  Listing!IsArrangement(drivers', candidates)
<1> DEFINE n == Len(candidates)
<1>1. PICK order \in [DOMAIN results -> DOMAIN results] :
        IsSorted(order) /\ drivers' = [k \in DOMAIN results |-> results[order[k]]]
  BY DEF Report
<1>2. /\ \A i \in Positions : \E k \in DOMAIN results : results[k] = i
      /\ Len(results) = n
  BY ResultsAreAll DEF Report
<1>3. DOMAIN results = 1 .. n /\ n \in Nat /\ Positions = 1 .. n
  BY <1>2, ElementsType, PositionsType DEF Positions
<1>4. drivers' \in Seq(1 .. n) /\ DOMAIN drivers' = 1 .. n /\ Len(drivers') = n
  <2>1. candidates' = candidates /\ drivers' \in Seq(Positions)
    BY DEF Report, TypeOK, Positions
  <2>2. DOMAIN drivers' = 1 .. n
    BY <1>1, <1>3
  <2>3. DOMAIN drivers' = 1 .. Len(drivers') /\ Len(drivers') \in Nat
    BY <2>1, LenProperties
  <2>4. QED
    BY <1>3, <2>1, <2>2, <2>3
<1>5. ASSUME NEW i \in 1 .. n
      PROVE  \E k \in 1 .. n : drivers'[k] = i
  <2>1. PICK j \in DOMAIN results : results[j] = i
    BY <1>2, <1>3
  <2>2. PICK k \in DOMAIN results : order[k] = j
    BY <1>1 DEF IsSorted, Permutes
  <2>3. QED
    BY <1>1, <1>3, <2>1, <2>2
<1>6. ASSUME NEW k \in 1 .. n, NEW l \in 1 .. n, drivers'[k] = drivers'[l]
      PROVE  k = l
  <2>1. order[k] \in DOMAIN results /\ order[l] \in DOMAIN results
    BY <1>3
  <2>2. order[k] = order[l]
    BY <1>1, <1>3, <1>6, <2>1 DEF PoolInv, Apart
  <2>3. order[k] \in Nat /\ ~ (order[k] < order[l]) /\ ~ (order[l] < order[k])
    BY <1>3, <2>1, <2>2
  <2>4. \A i \in DOMAIN results : Name[candidates[results[order[i]]].path] \in Nat
    <3>1. ASSUME NEW i \in DOMAIN results
          PROVE  Name[candidates[results[order[i]]].path] \in Nat
      <4>1. order[i] \in DOMAIN results
        OBVIOUS
      <4>2. results[order[i]] \in DOMAIN candidates
        <5>1. results \in Seq(Positions) /\ Positions = DOMAIN candidates
          BY ElementsType, PositionsType
        <5> HIDE DEF Positions
        <5>2. results[order[i]] \in Positions
          BY <4>1, <5>1
        <5>3. QED
          BY <5>1, <5>2
      <4>3. candidates[results[order[i]]] \in Candidate
        <5>1. candidates \in Seq(Candidate)
          BY DEF TypeOK
        <5>2. QED
          BY <4>2, <5>1
      <4>4. QED
        BY <4>3, MachineAssumption DEF Candidate
    <3>2. QED
      BY <3>1
  <2>5. ~ (k < l) /\ ~ (l < k)
    BY <1>1, <1>3, <2>2, <2>3, <2>4 DEF IsSorted
  <2>6. QED
    BY <1>3, <2>5
<1>7. ASSUME NEW k \in 1 .. n, NEW l \in 1 .. n, k < l
      PROVE  Name[candidates[drivers'[k]].path] <= Name[candidates[drivers'[l]].path]
  <2>1. candidates[drivers'[k]] \in Candidate /\ candidates[drivers'[l]] \in Candidate
    <3>1. candidates \in Seq(Candidate) /\ DOMAIN candidates = 1 .. n
      BY <1>3, PositionsType DEF TypeOK
    <3>2. drivers'[k] \in 1 .. n /\ drivers'[l] \in 1 .. n
      <4>1. drivers' \in Seq(1 .. n) /\ k \in DOMAIN drivers' /\ l \in DOMAIN drivers'
        BY <1>4, <1>7
      <4>2. QED
        BY <4>1
    <3>3. QED
      BY <3>1, <3>2
  <2>2. /\ Name[candidates[drivers'[k]].path] \in Nat
        /\ Name[candidates[drivers'[l]].path] \in Nat
    BY <2>1, MachineAssumption DEF Candidate
  <2>3. drivers'[k] = results[order[k]] /\ drivers'[l] = results[order[l]]
    BY <1>1, <1>3
  <2>4. QED
    <3>1. k \in DOMAIN results /\ l \in DOMAIN results
      BY <1>3, <1>7
    <3>2. \/ Name[candidates[results[order[k]]].path] < Name[candidates[results[order[l]]].path]
          \/ Name[candidates[results[order[k]]].path] = Name[candidates[results[order[l]]].path]
      BY <1>1, <1>7, <3>1 DEF IsSorted
    <3>3. QED
      BY <2>2, <2>3, <3>2
<1>8. QED
  BY <1>4, <1>5, <1>6, <1>7 DEF Listing!IsArrangement

LEMMA StepImplementsListing ==
  TypeOK /\ TypeOK' /\ PoolInv /\ [Next]_vars =>
    [Listing!Next]_<<IF collector = "wait" THEN "found"
                     ELSE IF collector = "done" THEN "listed"
                     ELSE IF collector = "panicked" THEN "lost"
                     ELSE "finding", candidates, drivers>>
<1> SUFFICES ASSUME TypeOK, TypeOK', PoolInv, [Next]_vars
             PROVE  [Listing!Next]_<<IF collector = "wait" THEN "found"
                                     ELSE IF collector = "done" THEN "listed"
                                     ELSE IF collector = "panicked" THEN "lost"
                                     ELSE "finding", candidates, drivers>>
  OBVIOUS
<1>1. CASE Sources
  <2>1. /\ collector \in {"query", "enumerate", "merge"}
        /\ collector' \in {"enumerate", "merge"} /\ drivers' = drivers
    BY <1>1 DEF Sources, QueryServices, QueryFails, EnumerateModules, MergeModule
  <2>2. QED
    BY <2>1 DEF Listing!Next, Listing!Find
<1>2. CASE SpawnWorkers
  BY <1>2 DEF SpawnWorkers, Listing!Next, Listing!Find
<1>3. CASE ScopePanics
  BY <1>3 DEF ScopePanics, Listing!Next, Listing!Lose
<1>4. CASE Report
  <2>1. collector = "wait" /\ collector' = "done" /\ candidates' = candidates
    BY <1>4 DEF Report
  <2>2. QED
    BY <1>4, <2>1, ReportArranges DEF Listing!Next, Listing!List
<1>5. ASSUME NEW w \in Workers, Pool(w)
      PROVE  UNCHANGED <<collector, candidates, drivers>>
  BY <1>5 DEF Pool, Take, QueueEmpty, Enrich, EnrichPanics, Publish
<1>6. CASE UNCHANGED vars
  BY <1>6 DEF vars
<1>7. QED
  BY <1>1, <1>2, <1>3, <1>4, <1>5, <1>6 DEF Next, Collector, Finished

(* The threaded inventory implements the listing that knows no threads.    *)
THEOREM InventoryListsAll == Spec => ImplementsListing
<1>1. Init => Listing!Init
  BY DEF Init, Listing!Init
<1>2. QED
  BY <1>1, StepImplementsListing, PoolInvariant, PTL DEF Spec, ImplementsListing, Listing!Spec

-----------------------------------------------------------------------------
(* The addresses and the status.                                           *)

LEMMA MergeInvInit == Init => MergeInv
<1> SUFFICES ASSUME Init PROVE MergeInv
  OBVIOUS
<1>1. modules = <<>> /\ merged = 0 /\ candidates = <<>> /\ collector = "query"
  BY DEF Init
<1>2. 1 .. merged = {} /\ Positions = {} /\ Distinct(modules)
  BY <1>1 DEF Positions, Distinct
<1>3. QED
  BY <1>1, <1>2 DEF MergeInv

LEMMA LoadedInjective ==
  ASSUME NEW p, NEW q, Loaded(p) = Loaded(q)
  PROVE  p = q
BY DEF Loaded

(* The candidates of a merge, one by one: i is the one that changes.       *)
LEMMA MergeElements ==
  ASSUME TypeOK, NEW path \in Paths, Merge(path)
  PROVE  \E i \in Positions' :
           /\ candidates'[i] = Loaded(path)
           /\ i \in Positions => candidates[i].path = path
           /\ \A j \in Positions : j \in Positions'
           /\ \A j \in Positions' : j # i => j \in Positions /\ candidates'[j] = candidates[j]
<1>0. candidates \in Seq(Candidate) /\ Positions = DOMAIN candidates
  BY PositionsType DEF TypeOK
<1>1. CASE candidates' = Append(candidates, [path |-> path, base |-> Address[path]])
  <2>1. Loaded(path) \in Candidate
    BY MachineAssumption DEF Candidate, Loaded
  <2> DEFINE x == Loaded(path)
             longer == Append(candidates, x)
  <2>2. candidates' = longer
    BY <1>1 DEF Loaded
  <2>3. /\ longer \in Seq(Candidate) /\ Len(candidates) \in Nat
        /\ DOMAIN longer = 1 .. Len(candidates) + 1
        /\ DOMAIN candidates = 1 .. Len(candidates)
        /\ longer[Len(candidates) + 1] = x
        /\ \A j \in 1 .. Len(candidates) : longer[j] = candidates[j]
    <3> HIDE DEF x
    <3>1. x \in Candidate
      BY <2>1 DEF x
    <3>2. QED
      BY <1>0, <3>1, AppendProperties, LenProperties
  <2> HIDE DEF longer
  <2>4. Positions' = DOMAIN longer
    BY <2>2, <2>3, LenProperties DEF Positions
  <2>5. Len(candidates) + 1 \in Positions' /\ Len(candidates) + 1 \notin Positions
    BY <1>0, <2>3, <2>4
  <2>6. QED
    BY <1>0, <2>2, <2>3, <2>4, <2>5
<1>2. CASE \E i \in Positions :
             /\ candidates[i].path = path
             /\ candidates' = [candidates EXCEPT ![i].base = Address[path]]
  <2>1. PICK i \in Positions :
          /\ candidates[i].path = path
          /\ candidates' = [candidates EXCEPT ![i].base = Address[path]]
    BY <1>2
  <2>2. candidates[i] \in Candidate
    BY <1>0
  <2>3. [candidates[i] EXCEPT !.base = Address[path]] = Loaded(path)
    BY <2>1, <2>2 DEF Candidate, Loaded
  <2> DEFINE x == Loaded(path)
  <2>4. candidates' = [candidates EXCEPT ![i] = x]
    BY <2>1, <2>3
  <2>5. x \in Candidate
    BY MachineAssumption DEF Candidate, Loaded
  <2> HIDE DEF x
  <2>6. candidates' \in Seq(Candidate) /\ Len(candidates') = Len(candidates)
    BY <1>0, <2>4, <2>5, ExceptSeq
  <2>7. Positions' = Positions
    BY <2>6 DEF Positions
  <2>8. candidates'[i] = Loaded(path)
    BY <1>0, <2>4 DEF x
  <2>9. QED
    BY <1>0, <2>1, <2>4, <2>7, <2>8
<1>3. QED
  BY <1>1, <1>2 DEF Merge

LEMMA MergeModuleKeeps ==
  ASSUME TypeOK, MergeInv, MergeModule
  PROVE  MergeInv'
<1> DEFINE path == modules[merged + 1]
<1>1. /\ merged' = merged + 1 /\ merged \in Nat /\ collector = "merge"
      /\ UNCHANGED <<collector, modules>>
      /\ merged + 1 \in 1 .. Len(modules) /\ merged + 1 \in DOMAIN modules
      /\ path \in Paths
  <2>1. modules \in Seq(Paths)
    BY DEF TypeOK
  <2>2. QED
    BY <2>1, PositionsType DEF MergeModule
<1>2. PICK i \in Positions' :
        /\ candidates'[i] = Loaded(path)
        /\ i \in Positions => candidates[i].path = path
        /\ \A j \in Positions : j \in Positions'
        /\ \A j \in Positions' : j # i => j \in Positions /\ candidates'[j] = candidates[j]
  BY <1>1, MergeElements DEF MergeModule
<1>3. \A m \in 1 .. merged : modules[m] # path /\ m \in 1 .. merged'
  <2>1. ASSUME NEW m \in 1 .. merged
        PROVE  m \in DOMAIN modules /\ m # merged + 1 /\ m \in 1 .. merged'
    BY <1>1, PositionsType
  <2>2. QED
    BY <1>1, <2>1 DEF MergeInv, Distinct
<1>4. \A m \in 1 .. merged' : m \in 1 .. merged \/ modules[m] = path
  BY <1>1
<1> HIDE DEF path
<1>5. ASSUME NEW m \in 1 .. merged'
      PROVE  \E j \in Positions' : candidates'[j] = Loaded(modules[m])
  <2>1. CASE modules[m] = path
    BY <1>2, <2>1
  <2>2. CASE m \in 1 .. merged
    <3>1. PICK j \in Positions : candidates[j] = Loaded(modules[m])
      BY <2>2 DEF MergeInv
    <3>2. j # i
      BY <1>2, <1>3, <2>2, <3>1 DEF Loaded
    <3>3. QED
      BY <1>2, <3>1, <3>2
  <2>3. QED
    BY <1>4, <2>1, <2>2
<1>6. ASSUME NEW j \in Positions', candidates'[j].base # 0
      PROVE  \E m \in 1 .. merged' : candidates'[j] = Loaded(modules[m])
  <2>1. CASE j = i
    <3>1. merged + 1 \in 1 .. merged'
      BY <1>1
    <3>2. QED
      BY <1>2, <2>1, <3>1 DEF path
  <2>2. CASE j # i
    BY <1>2, <1>3, <1>6, <2>2 DEF MergeInv
  <2>3. QED
    BY <2>1, <2>2
<1>7. ASSUME NEW j \in Positions', NEW k \in Positions',
             candidates'[j].base # 0, candidates'[k] = candidates'[j]
      PROVE  j = k
  <2>1. \A l \in Positions : candidates[l].base # 0 => candidates[l] # Loaded(path)
    <3>1. SUFFICES ASSUME NEW l \in Positions, candidates[l].base # 0, candidates[l] = Loaded(path)
                   PROVE  FALSE
      OBVIOUS
    <3>2. PICK m \in 1 .. merged : candidates[l] = Loaded(modules[m])
      BY <3>1 DEF MergeInv
    <3>3. QED
      BY <1>3, <3>1, <3>2, LoadedInjective
  <2>2. CASE j # i /\ k # i
    BY <1>2, <1>7, <2>2 DEF MergeInv
  <2>3. CASE j = i \/ k = i
    BY <1>2, <1>7, <2>1, <2>3
  <2>4. QED
    BY <2>2, <2>3
<1>8. QED
  BY <1>1, <1>5, <1>6, <1>7 DEF MergeInv

LEMMA MergeInvStep ==
  ASSUME TypeOK, PoolInv, MergeInv, [Next]_vars
  PROVE  MergeInv'
<1>1. CASE QueryServices
  <2>1. /\ collector' = "enumerate" /\ collector = "query"
        /\ UNCHANGED <<modules, merged>> /\ merged = 0
    BY <1>1 DEF QueryServices, PoolInv, ThreadState
  <2>2. \A i \in Positions' : candidates'[i].base = 0
    BY <1>1 DEF QueryServices, Positions, Listings
  <2>3. 1 .. merged' = {}
    BY <2>1
  <2>4. QED
    BY <2>1, <2>2, <2>3 DEF MergeInv
<1>2. CASE QueryFails
  BY <1>2 DEF QueryFails, MergeInv, Positions
<1>3. CASE EnumerateModules
  <2>1. /\ collector = "enumerate" /\ collector' = "merge" /\ Distinct(modules')
        /\ UNCHANGED <<merged, candidates>> /\ merged = 0 /\ Positions' = Positions
    BY <1>3 DEF EnumerateModules, PoolInv, ThreadState, Positions
  <2>2. 1 .. merged = {}
    BY <2>1
  <2>3. QED
    BY <2>1, <2>2 DEF MergeInv
<1>4. CASE MergeModule
  BY <1>4, MergeModuleKeeps
<1>5. CASE SpawnWorkers
  BY <1>5 DEF SpawnWorkers, MergeInv, Positions
<1>6. CASE ScopePanics
  BY <1>6 DEF ScopePanics, MergeInv, Positions
<1>7. CASE Report
  <2>1. /\ collector = "wait" /\ collector' = "done"
        /\ UNCHANGED sourceVars /\ status' = Status(drivers')
        /\ Positions' = Positions
    BY <1>7 DEF Report, Positions
  <2>2. (status = Status(drivers))'
    BY <2>1 DEF Status, Hidden
  <2>3. Distinct(modules)'
    BY <2>1 DEF MergeInv, Distinct
  <2>4. QED
    BY <2>1, <2>2, <2>3 DEF MergeInv
<1>8. ASSUME NEW w \in Workers, Pool(w) PROVE MergeInv'
  <2>1. UNCHANGED <<collector, sourceVars, reportVars>>
    BY <1>8 DEF Pool, Take, QueueEmpty, Enrich, EnrichPanics, Publish
  <2>2. QED
    BY <2>1 DEF MergeInv, Positions, Status, Hidden, Distinct
<1>9. CASE UNCHANGED vars
  BY <1>9 DEF vars, MergeInv, Positions, Status, Hidden, Distinct
<1>10. QED
  BY <1>1, <1>2, <1>3, <1>4, <1>5, <1>6, <1>7, <1>8, <1>9
  DEF Next, Collector, Sources, Finished

Arranged == collector = "done" => Listing!IsArrangement(drivers, candidates)

LEMMA ArrangedStep ==
  ASSUME TypeOK, TypeOK', PoolInv, Arranged, [Next]_vars
  PROVE  Arranged'
<1>1. CASE Report
  <2>1. candidates' = candidates
    BY <1>1 DEF Report
  <2>2. QED
    BY <1>1, <2>1, ReportArranges DEF Arranged
<1>2. CASE ~Report
  <2>1. collector' = "done" => UNCHANGED <<collector, drivers, candidates>>
    BY <1>2 DEF Next, Collector, Sources, Finished, QueryServices, QueryFails, EnumerateModules,
       MergeModule, SpawnWorkers, ScopePanics, Pool, Take, QueueEmpty, Enrich, EnrichPanics,
       Publish, vars
  <2>2. QED
    BY <2>1 DEF Arranged
<1>3. QED
  BY <1>1, <1>2

LEMMA MergeInvariant == Spec => [](TypeOK /\ MergeInv /\ Arranged)
<1>1. Init => MergeInv /\ Arranged
  BY MergeInvInit DEF Init, Arranged
<1>2. TypeOK /\ PoolInv /\ MergeInv /\ Arranged /\ [Next]_vars /\ (TypeOK /\ PoolInv)'
        => (MergeInv /\ Arranged)'
  BY MergeInvStep, ArrangedStep
<1>3. QED
  BY <1>1, <1>2, PoolInvariant, PTL DEF Spec

LEMMA ArrangedElements ==
  ASSUME TypeOK, Arranged, collector = "done"
  PROVE  /\ DOMAIN drivers = Positions
         /\ \A k \in DOMAIN drivers : drivers[k] \in Positions
         /\ \A i \in Positions : \E k \in DOMAIN drivers : drivers[k] = i
         /\ \A k, l \in DOMAIN drivers : drivers[k] = drivers[l] => k = l
<1>1. /\ drivers \in Seq(Positions) /\ Len(drivers) = Len(candidates)
      /\ \A i \in Positions : \E k \in Positions : drivers[k] = i
      /\ \A k, l \in Positions : drivers[k] = drivers[l] => k = l
  BY DEF Arranged, Listing!IsArrangement, Positions
<1>2. DOMAIN drivers = Positions
  BY <1>1, LenProperties DEF Positions
<1> HIDE DEF Positions
<1>3. \A k \in DOMAIN drivers : drivers[k] \in Positions
  BY <1>1
<1>4. QED
  BY <1>1, <1>2, <1>3

LEMMA AddressesHold ==
  ASSUME TypeOK, MergeInv, Arranged
  PROVE  AddressesSurvive
<1> SUFFICES ASSUME collector = "done", NEW m \in DOMAIN modules, Address[modules[m]] # 0
             PROVE  \E k \in DOMAIN drivers :
                      /\ candidates[drivers[k]].path = modules[m]
                      /\ candidates[drivers[k]].base = Address[modules[m]]
                      /\ \A l \in DOMAIN drivers :
                           /\ candidates[drivers[l]].path = modules[m]
                           /\ candidates[drivers[l]].base = Address[modules[m]]
                           => l = k
  BY Zenon DEF AddressesSurvive
<1>1. m \in 1 .. merged
  BY PositionsType DEF MergeInv
<1>2. PICK i \in Positions : candidates[i] = Loaded(modules[m])
  BY <1>1 DEF MergeInv
<1>3. PICK k \in DOMAIN drivers : drivers[k] = i
  BY ArrangedElements
<1>4. candidates[i].path = modules[m] /\ candidates[i].base = Address[modules[m]]
  BY <1>2 DEF Loaded
<1>5. ASSUME NEW l \in DOMAIN drivers,
             candidates[drivers[l]].path = modules[m],
             candidates[drivers[l]].base = Address[modules[m]]
      PROVE  l = k
  <2>1. drivers[l] \in Positions
    BY ArrangedElements
  <2>2. candidates[drivers[l]] \in Candidate /\ candidates[i] \in Candidate
    <3>1. candidates \in Seq(Candidate) /\ Positions = DOMAIN candidates
      BY PositionsType DEF TypeOK
    <3> HIDE DEF Positions
    <3>2. QED
      BY <2>1, <3>1
  <2>3. candidates[drivers[l]] = candidates[i]
    BY <1>4, <1>5, <2>2 DEF Candidate
  <2>4. drivers[l] = i
    BY <1>4, <2>1, <2>3 DEF MergeInv
  <2>5. QED
    BY <1>3, <2>4, ArrangedElements
<1>6. QED
  BY <1>3, <1>4, <1>5

(* Whatever the services share with the modules, and whichever threads     *)
(* enriched what: each loaded module's address is on exactly one driver.   *)
THEOREM EveryAddressSurvives == Spec => []AddressesSurvive
BY MergeInvariant, AddressesHold, PTL

LEMMA StatusHolds ==
  ASSUME TypeOK, MergeInv, Arranged
  PROVE  StatusIsHonest
<1> SUFFICES ASSUME collector = "done"
             PROVE  status = "complete" <=>
                      /\ ~wmiFailed
                      /\ \/ drivers = <<>>
                         \/ \E m \in DOMAIN modules : Address[modules[m]] # 0
  BY DEF StatusIsHonest
<1>1. status = "complete" <=> ~wmiFailed /\ ~Hidden(drivers)
  BY DEF MergeInv, Status
<1>2. ~Hidden(drivers) <=> drivers = <<>> \/ \E i \in Positions : candidates[i].base # 0
  BY ArrangedElements DEF Hidden
<1>3. 1 .. merged = DOMAIN modules
  BY PositionsType DEF MergeInv
<1>4. ASSUME NEW i \in Positions, candidates[i].base # 0
      PROVE  \E m \in DOMAIN modules : Address[modules[m]] # 0
  <2>1. PICK m \in 1 .. merged : candidates[i] = Loaded(modules[m])
    BY <1>4 DEF MergeInv
  <2>2. candidates[i].base = Address[modules[m]]
    BY <2>1 DEF Loaded
  <2>3. m \in DOMAIN modules
    BY <1>3, Zenon
  <2>4. QED
    BY <1>4, <2>2, <2>3
<1>5. ASSUME NEW m \in DOMAIN modules, Address[modules[m]] # 0
      PROVE  \E i \in Positions : candidates[i].base # 0
  <2>1. PICK i \in Positions : candidates[i] = Loaded(modules[m])
    BY <1>3 DEF MergeInv
  <2>2. QED
    BY <1>5, <2>1 DEF Loaded
<1>6. QED
  BY <1>1, <1>2, <1>4, <1>5

(* The inventory calls itself complete exactly when the services are known *)
(* and some module showed its address, or there was no driver at all.      *)
THEOREM StatusTellsTheTruth == Spec => []StatusIsHonest
BY MergeInvariant, StatusHolds, PTL
-----------------------------------------------------------------------------
(* The inventory ends after finitely many steps: each of them takes one    *)
(* from what remains.                                                      *)

(* No more is listed and merged than the two sources may list.             *)
Sizes == Len(modules) <= MaxLoaded /\ Len(candidates) <= MaxListed + merged

LEMMA ListingSize ==
  ASSUME NEW S, NEW n \in Nat, NEW s \in Listings(S, n)
  PROVE  s \in Seq(S) /\ Len(s) \in 0 .. n
<1>1. PICK k \in 0 .. n : s \in [1 .. k -> S]
  BY DEF Listings
<1>2. k \in Nat /\ k <= n
  BY <1>1
<1>3. s \in Seq(S) /\ Len(s) = k
  BY <1>1, <1>2
<1>4. QED
  BY <1>2, <1>3

LEMMA MergeSize ==
  ASSUME TypeOK, NEW path \in Paths, Merge(path)
  PROVE  Len(candidates') \in Nat /\ Len(candidates') <= Len(candidates) + 1
<1>1. candidates \in Seq(Candidate) /\ Len(candidates) \in Nat
  BY PositionsType DEF TypeOK
<1>2. CASE candidates' = Append(candidates, [path |-> path, base |-> Address[path]])
  <2>1. Len(candidates') = Len(candidates) + 1
    BY <1>1, <1>2
  <2>2. QED
    BY <1>1, <2>1
<1>3. ASSUME NEW i \in Positions, candidates' = [candidates EXCEPT ![i].base = Address[path]]
      PROVE  Len(candidates') = Len(candidates)
  <2>1. DOMAIN candidates' = DOMAIN candidates /\ DOMAIN candidates = 1 .. Len(candidates)
    BY <1>1, <1>3
  <2>2. candidates' \in Seq(Candidate)
    BY MergeType
  <2>3. Len(candidates') \in Nat /\ DOMAIN candidates' = 1 .. Len(candidates')
    BY <2>2, LenProperties
  <2>4. QED
    BY <1>1, <2>1, <2>3
<1>4. QED
  BY <1>1, <1>2, <1>3 DEF Merge

LEMMA SizesStep == TypeOK /\ ThreadState /\ Sizes /\ [Next]_vars => Sizes'
<1> SUFFICES ASSUME TypeOK, ThreadState, Sizes, [Next]_vars PROVE Sizes'
  OBVIOUS
<1>0. MaxListed \in Nat /\ MaxLoaded \in Nat
  BY MachineAssumption
<1>1. CASE QueryServices
  <2>1. PICK listed \in Listings(Paths, MaxListed) :
          candidates' = [i \in 1 .. Len(listed) |-> [path |-> listed[i], base |-> 0]]
    BY <1>1 DEF QueryServices
  <2>2. Len(listed) \in Nat /\ Len(listed) <= MaxListed
    BY <1>0, ListingSize
  <2>3. Len(candidates') = Len(listed)
    BY <2>1, <2>2
  <2>4. merged' = 0 /\ modules' = modules
    BY <1>1 DEF QueryServices, ThreadState
  <2>5. QED
    BY <1>0, <2>2, <2>3, <2>4 DEF Sizes
<1>2. CASE EnumerateModules
  <2>1. modules' \in Listings(Paths, MaxLoaded) /\ UNCHANGED <<merged, candidates>>
    BY <1>2 DEF EnumerateModules
  <2>2. Len(modules') \in 0 .. MaxLoaded
    BY <1>0, <2>1, ListingSize
  <2>3. QED
    BY <1>0, <2>1, <2>2 DEF Sizes
<1>3. CASE MergeModule
  <2>1. modules[merged + 1] \in Paths
    <3>1. merged + 1 \in DOMAIN modules
      BY <1>3, PositionsType DEF MergeModule
    <3>2. modules \in Seq(Paths)
      BY DEF TypeOK
    <3>3. QED
      BY <3>1, <3>2
  <2>2. Len(candidates') \in Nat /\ Len(candidates') <= Len(candidates) + 1
    BY <1>3, <2>1, MergeSize DEF MergeModule
  <2>3. merged' = merged + 1 /\ modules' = modules
    BY <1>3 DEF MergeModule
  <2>4. merged \in Nat /\ Len(candidates) \in Nat
    BY PositionsType
  <2>5. QED
    BY <1>0, <2>2, <2>3, <2>4 DEF Sizes
<1>4. CASE UNCHANGED <<modules, merged, candidates>>
  BY <1>4 DEF Sizes
<1>5. QED
  BY <1>1, <1>2, <1>3, <1>4 DEF Next, Collector, Sources, Pool, Finished, vars, QueryFails,
     SpawnWorkers, ScopePanics, Report, Take, QueueEmpty, Enrich, EnrichPanics, Publish

LEMMA SizesInvariant == Spec => [](TypeOK /\ PoolInv /\ Sizes)
<1>1. Init => Sizes
  BY MachineAssumption DEF Init, Sizes
<1>2. PoolInv => ThreadState
  BY DEF PoolInv
<1>3. QED
  BY <1>1, <1>2, SizesStep, PoolInvariant, PTL DEF Spec

(* Of a set of threads, a part is counted no higher, and a proper part     *)
(* lower.                                                                  *)
LEMMA FewerThreads ==
  ASSUME NEW S \in SUBSET Workers, NEW T \in SUBSET S
  PROVE  /\ Cardinality(S) \in Nat /\ Cardinality(T) \in Nat
         /\ Cardinality(T) <= Cardinality(S)
         /\ T # S => Cardinality(T) < Cardinality(S)
<1>1. IsFiniteSet(Workers)
  <2>1. 1 \in Int /\ WorkerCount \in Int
    BY WorkerCountType
  <2>2. QED
    BY <2>1, FS_Interval DEF Workers
<1>2. IsFiniteSet(S)
  BY <1>1, FS_Subset
<1>3. IsFiniteSet(T)
  BY <1>2, FS_Subset
<1>4. Cardinality(S) \in Nat /\ Cardinality(T) \in Nat
  BY <1>2, <1>3, FS_CardinalityType
<1>5. Cardinality(T) <= Cardinality(S) /\ (Cardinality(S) = Cardinality(T) => S = T)
  BY <1>2, FS_Subset
<1>6. QED
  BY <1>4, <1>5

LEMMA OneFewer ==
  ASSUME NEW S \in SUBSET Workers, NEW w \in S
  PROVE  Cardinality(S \ {w}) \in Nat /\ Cardinality(S) = Cardinality(S \ {w}) + 1
<1>1. IsFiniteSet(Workers)
  <2>1. 1 \in Int /\ WorkerCount \in Int
    BY WorkerCountType
  <2>2. QED
    BY <2>1, FS_Interval DEF Workers
<1>2. IsFiniteSet(S)
  BY <1>1, FS_Subset
<1>3. Cardinality(S) \in Nat /\ Cardinality(S \ {w}) = Cardinality(S) - 1
  BY <1>2, FS_RemoveElement, FS_CardinalityType
<1>4. Cardinality(S \ {w}) \in Nat
  BY FewerThreads
<1>5. QED
  BY <1>3, <1>4

(* The parts of what remains, each a natural number.                       *)
LEMMA PartsOfRemaining ==
  ASSUME TypeOK, PoolInv, Sizes
  PROVE  /\ CollectorSteps[collector] \in Nat /\ ToMerge \in Nat /\ ToTake \in Nat
         /\ ToEnrich \in Nat
         /\ ToEnd \in SUBSET Workers /\ ToDrain \in SUBSET ToEnd /\ Enriching \in SUBSET Workers
         /\ Cardinality(ToEnd) \in Nat /\ Cardinality(ToDrain) \in Nat
         /\ Cardinality(Enriching) \in Nat
<1>1. ToEnd \in SUBSET Workers /\ ToDrain \in SUBSET ToEnd /\ Enriching \in SUBSET Workers
  BY DEF ToEnd, ToDrain, Enriching
<1>2. /\ Cardinality(ToEnd) \in Nat /\ Cardinality(ToDrain) \in Nat
      /\ Cardinality(Enriching) \in Nat
  BY <1>1, FewerThreads
<1>3. CollectorSteps[collector] \in Nat
  <2>1. collector \in {"query", "enumerate", "merge", "wait", "done", "panicked"}
    BY DEF TypeOK
  <2>2. QED
    BY <2>1 DEF CollectorSteps
<1>4. ToMerge \in Nat /\ ToTake \in Nat
  BY PositionsType, MachineAssumption DEF ToMerge, ToTake
<1>5. ToEnrich \in Nat
  BY <1>2, <1>4 DEF ToEnrich
<1>6. QED
  BY <1>1, <1>2, <1>3, <1>4, <1>5

(* A step that takes one part down and none up takes one from the sum.     *)
Falls(a, b, c, d, e, x, y, z, t, u) ==
  /\ a \in Nat /\ b \in Nat /\ c \in Nat /\ d \in Nat /\ e \in Nat
  /\ x \in 0 .. a /\ y \in 0 .. b /\ z \in 0 .. c /\ t \in 0 .. d /\ u \in 0 .. e
  /\ x < a \/ y < b \/ z < c \/ t < d \/ u < e

SumOf(a, b, c, d, e) == a + b + c + d + e

LEMMA SumFalls ==
  ASSUME NEW a, NEW b, NEW c, NEW d, NEW e, NEW x, NEW y, NEW z, NEW t, NEW u,
         Falls(a, b, c, d, e, x, y, z, t, u)
  PROVE  SumOf(x, y, z, t, u) \in 0 .. SumOf(a, b, c, d, e) - 1
BY DEF Falls, SumOf

(* What is left of each part, before and after a step.                     *)
PartsFall ==
  Falls(CollectorSteps[collector], ToMerge, ToEnrich, Cardinality(ToEnd), Cardinality(ToDrain),
        CollectorSteps[collector'], ToMerge', ToEnrich', Cardinality(ToEnd'), Cardinality(ToDrain'))

LEMMA SameThreads ==
  ASSUME UNCHANGED worker
  PROVE  ToEnd' = ToEnd /\ ToDrain' = ToDrain /\ Enriching' = Enriching
BY DEF ToEnd, ToDrain, Enriching, Ended

LEMMA SourcesAdvance ==
  ASSUME TypeOK, PoolInv, Sizes, Sizes', TypeOK', Sources
  PROVE  PartsFall
<1>1. ToEnd' = ToEnd /\ ToDrain' = ToDrain /\ Enriching' = Enriching
  BY SameThreads DEF Sources, QueryServices, QueryFails, EnumerateModules, MergeModule
<1>2. collector \in {"query", "enumerate", "merge"} /\ collector' \in {"query", "enumerate", "merge"}
  BY DEF Sources, QueryServices, QueryFails, EnumerateModules, MergeModule
<1>3. ToTake' = ToTake
  BY <1>2 DEF ToTake
<1>4. ToEnrich' = ToEnrich
  BY <1>1, <1>3 DEF ToEnrich
<1>5. MaxLoaded \in Nat /\ Len(modules) \in Nat /\ merged \in Nat
  BY PositionsType, MachineAssumption
<1> DEFINE a == CollectorSteps[collector]
           x == CollectorSteps[collector']
<1>6. /\ x \in Nat /\ ToMerge' \in Nat /\ x <= a /\ ToMerge' <= ToMerge
      /\ x < a \/ ToMerge' < ToMerge
  <2>1. CASE QueryServices \/ QueryFails
    <3>1. collector = "query" /\ collector' = "enumerate"
      BY <2>1 DEF QueryServices, QueryFails
    <3>2. QED
      BY <3>1, <1>5 DEF ToMerge, CollectorSteps
  <2>2. CASE EnumerateModules
    <3>1. collector = "enumerate" /\ collector' = "merge" /\ merged' = 0
      BY <2>2 DEF EnumerateModules, PoolInv, ThreadState
    <3>2. Len(modules') \in Nat /\ Len(modules') <= MaxLoaded
      <4>1. modules' \in Seq(Paths)
        BY DEF TypeOK
      <4>2. QED
        BY <4>1, LenProperties DEF Sizes
    <3>3. QED
      BY <1>5, <3>1, <3>2 DEF ToMerge, CollectorSteps
  <2>3. CASE MergeModule
    <3>1. /\ collector = "merge" /\ collector' = "merge" /\ merged < Len(modules)
          /\ merged' = merged + 1 /\ modules' = modules
      BY <2>3 DEF MergeModule
    <3>2. QED
      BY <1>5, <3>1 DEF ToMerge, CollectorSteps
  <2>4. QED
    BY <2>1, <2>2, <2>3 DEF Sources
<1>7. /\ a \in Nat /\ ToMerge \in Nat /\ ToEnrich \in Nat
      /\ Cardinality(ToEnd) \in Nat /\ Cardinality(ToDrain) \in Nat
  BY PartsOfRemaining
<1> HIDE DEF a, x
<1>8. Falls(a, ToMerge, ToEnrich, Cardinality(ToEnd), Cardinality(ToDrain),
            x, ToMerge', ToEnrich, Cardinality(ToEnd), Cardinality(ToDrain))
  BY <1>6, <1>7 DEF Falls
<1>9. QED
  BY <1>1, <1>4, <1>8 DEF PartsFall, a, x


LEMMA CollectorAdvances ==
  ASSUME TypeOK, PoolInv, Sizes, SpawnWorkers \/ ScopePanics \/ Report
  PROVE  PartsFall
<1> DEFINE a == CollectorSteps[collector]
           x == CollectorSteps[collector']
<1>1. /\ merged \in Nat /\ Len(modules) \in Nat /\ merged <= Len(modules)
      /\ taken \in Nat /\ Len(candidates) \in Nat /\ taken <= Len(candidates)
      /\ MaxListed \in Nat /\ MaxLoaded \in Nat
  BY PositionsType, MachineAssumption
<1>2. /\ collector \in {"merge", "wait"} /\ collector' \in {"wait", "done", "panicked"}
      /\ collector = "merge" => collector' = "wait"
      /\ collector = "wait" => collector' \in {"done", "panicked"}
  BY DEF SpawnWorkers, ScopePanics, Report
<1>3. x \in Nat /\ x < a
  BY <1>2 DEF CollectorSteps
<1>4. UNCHANGED <<modules, merged, candidates, taken>>
  BY DEF SpawnWorkers, ScopePanics, Report
<1>5. ToMerge' = ToMerge
  BY <1>2, <1>4 DEF ToMerge
<1>6. ToTake' \in Nat /\ ToTake' <= ToTake
  BY <1>1, <1>2, <1>4 DEF ToTake, Sizes
<1>7. ToEnd' \in SUBSET ToEnd /\ ToDrain' \in SUBSET ToDrain /\ Enriching' \in SUBSET Enriching
  <2>1. CASE SpawnWorkers
    <3>1. \A w \in Workers : worker[w] = "unborn" /\ worker'[w] \in {"take", "ended"}
      BY <2>1 DEF SpawnWorkers, PoolInv, ThreadState
    <3>2. QED
      BY <3>1 DEF ToEnd, ToDrain, Enriching, Ended
  <2>2. CASE ScopePanics \/ Report
    BY <2>2, SameThreads DEF ScopePanics, Report
  <2>3. QED
    BY <2>1, <2>2
<1>8. /\ a \in Nat /\ ToMerge \in Nat /\ ToTake \in Nat /\ ToEnrich \in Nat
      /\ ToEnd \in SUBSET Workers /\ ToDrain \in SUBSET Workers /\ Enriching \in SUBSET Workers
  BY PartsOfRemaining
<1>9. /\ Cardinality(ToEnd') \in 0 .. Cardinality(ToEnd) /\ Cardinality(ToEnd) \in Nat
      /\ Cardinality(ToDrain') \in 0 .. Cardinality(ToDrain) /\ Cardinality(ToDrain) \in Nat
      /\ Cardinality(Enriching') \in 0 .. Cardinality(Enriching) /\ Cardinality(Enriching) \in Nat
  <2>1. \A S, T : S \in SUBSET Workers /\ T \in SUBSET S =>
          Cardinality(T) \in 0 .. Cardinality(S) /\ Cardinality(S) \in Nat
    BY FewerThreads
  <2>2. QED
    BY <1>7, <1>8, <2>1
<1>10. ToEnrich' \in 0 .. ToEnrich
  BY <1>6, <1>8, <1>9 DEF ToEnrich
<1> HIDE DEF a, x
<1>11. Falls(a, ToMerge, ToEnrich, Cardinality(ToEnd), Cardinality(ToDrain),
             x, ToMerge, ToEnrich', Cardinality(ToEnd'), Cardinality(ToDrain'))
  BY <1>3, <1>8, <1>9, <1>10 DEF Falls
<1>12. QED
  BY <1>5, <1>11 DEF PartsFall, a, x

(* A thread works on while the collector waits.                            *)
LEMMA ThreadsWork ==
  ASSUME TypeOK, PoolInv, NEW w \in Workers, Pool(w)
  PROVE  /\ collector \notin {"query", "enumerate", "merge"}
         /\ UNCHANGED <<collector, modules, merged, candidates>>
         /\ worker \in [Workers -> {"unborn", "take", "enrich", "publish", "ended", "panicked"}]
<1>1. worker[w] # "unborn"
  BY DEF Pool, Take, QueueEmpty, Enrich, EnrichPanics, Publish
<1>2. UNCHANGED <<collector, modules, merged, candidates>>
  BY DEF Pool, Take, QueueEmpty, Enrich, EnrichPanics, Publish
<1>3. QED
  BY <1>1, <1>2 DEF PoolInv, ThreadState, TypeOK

LEMMA PoolAdvances ==
  ASSUME TypeOK, PoolInv, Sizes, NEW w \in Workers, Pool(w)
  PROVE  PartsFall
<1> DEFINE a == CollectorSteps[collector]
<1>0. /\ collector \notin {"query", "enumerate", "merge"}
      /\ UNCHANGED <<collector, modules, merged, candidates>>
      /\ worker \in [Workers -> {"unborn", "take", "enrich", "publish", "ended", "panicked"}]
  BY ThreadsWork
<1>1. /\ a \in Nat /\ ToMerge \in Nat /\ ToTake \in Nat /\ ToEnrich \in Nat
      /\ ToEnd \in SUBSET Workers /\ ToDrain \in SUBSET Workers /\ Enriching \in SUBSET Workers
  BY PartsOfRemaining
<1>2. ToMerge' = ToMerge
  BY <1>0 DEF ToMerge
<1>3. ToEnd' \in SUBSET ToEnd /\ ToDrain' \in SUBSET ToDrain
  BY <1>0 DEF ToEnd, ToDrain, Ended, Pool, Take, QueueEmpty, Enrich, EnrichPanics, Publish
<1>4. \A S, T : S \in SUBSET Workers /\ T \in SUBSET S =>
        /\ Cardinality(T) \in 0 .. Cardinality(S) /\ Cardinality(S) \in Nat
        /\ T # S => Cardinality(T) < Cardinality(S)
  BY FewerThreads
<1>5. /\ Cardinality(ToEnd') \in 0 .. Cardinality(ToEnd) /\ Cardinality(ToEnd) \in Nat
      /\ Cardinality(ToDrain') \in 0 .. Cardinality(ToDrain) /\ Cardinality(ToDrain) \in Nat
      /\ Cardinality(Enriching) \in Nat
  BY <1>1, <1>3, <1>4
<1>6. ToEnrich' \in 0 .. ToEnrich
      /\ (ToEnrich' < ToEnrich \/ Cardinality(ToEnd') < Cardinality(ToEnd)
          \/ Cardinality(ToDrain') < Cardinality(ToDrain))
  <2>1. CASE Take(w)
    <3>1. ToTake' = ToTake - 1 /\ ToTake' \in Nat
      BY <1>0, <2>1, PositionsType DEF Take, ToTake
    <3>2. Enriching' = Enriching \cup {w} /\ w \notin Enriching
      BY <1>0, <2>1 DEF Take, Enriching
    <3>3. Enriching' \in SUBSET Workers /\ Enriching = Enriching' \ {w} /\ w \in Enriching'
      BY <1>1, <3>2
    <3>4. Cardinality(Enriching') = Cardinality(Enriching) + 1
      BY <3>3, OneFewer
    <3>5. QED
      BY <1>1, <1>5, <3>1, <3>4 DEF ToEnrich
  <2>2. CASE Enrich(w) \/ EnrichPanics(w)
    <3>1. ToTake' = ToTake
      BY <1>0, <2>2 DEF Enrich, EnrichPanics, ToTake
    <3>2. Enriching' = Enriching \ {w} /\ w \in Enriching
      BY <1>0, <2>2 DEF Enrich, EnrichPanics, Enriching
    <3>3. Cardinality(Enriching) = Cardinality(Enriching') + 1 /\ Cardinality(Enriching') \in Nat
      BY <1>1, <3>2, OneFewer
    <3>4. QED
      BY <1>1, <1>5, <3>1, <3>3 DEF ToEnrich
  <2>3. CASE QueueEmpty(w) \/ Publish(w)
    <3>1. ToTake' = ToTake /\ Enriching' = Enriching
      BY <1>0, <2>3 DEF QueueEmpty, Publish, ToTake, Enriching
    <3>2. ToEnrich' = ToEnrich
      BY <3>1 DEF ToEnrich
    <3>3. ToEnd' # ToEnd \/ ToDrain' # ToDrain
      <4>1. CASE QueueEmpty(w)
        <5>1. w \in ToDrain /\ w \notin ToDrain'
          BY <1>0, <4>1 DEF QueueEmpty, ToDrain, ToEnd, Ended
        <5>2. QED
          BY <5>1
      <4>2. CASE Publish(w)
        <5>1. w \in ToEnd /\ w \notin ToEnd'
          BY <1>0, <4>2 DEF Publish, ToEnd, Ended
        <5>2. QED
          BY <5>1
      <4>3. QED
        BY <2>3, <4>1, <4>2
    <3>4. QED
      BY <1>1, <1>3, <1>4, <3>2, <3>3
  <2>4. QED
    BY <2>1, <2>2, <2>3 DEF Pool
<1>7. Falls(a, ToMerge, ToEnrich, Cardinality(ToEnd), Cardinality(ToDrain),
            a, ToMerge, ToEnrich', Cardinality(ToEnd'), Cardinality(ToDrain'))
  <2> HIDE DEF a
  <2>1. QED
    BY <1>1, <1>5, <1>6 DEF Falls
<1>8. a' = a
  BY <1>0
<1> HIDE DEF a
<1>9. QED
  BY <1>2, <1>7, <1>8 DEF PartsFall, a

(* Every step brings the inventory closer to its end, for any sources,     *)
(* number of threads and panics: it makes finitely many.                   *)
THEOREM InventoryIsBounded == Spec => InventoryAdvances
<1>1. ASSUME TypeOK, PoolInv, Sizes, TypeOK', Sizes', [Next]_vars
      PROVE  [Remaining' \in 0 .. Remaining - 1]_vars
  <2>1. CASE UNCHANGED vars
    BY <2>1
  <2>2. CASE PartsFall
    <3> DEFINE before == SumOf(CollectorSteps[collector], ToMerge, ToEnrich,
                               Cardinality(ToEnd), Cardinality(ToDrain))
               after == SumOf(CollectorSteps[collector'], ToMerge', ToEnrich',
                              Cardinality(ToEnd'), Cardinality(ToDrain'))
    <3>1. after \in 0 .. before - 1
      BY <2>2, SumFalls, Zenon DEF PartsFall
    <3>2. Remaining = before /\ Remaining' = after
      BY DEF Remaining, SumOf
    <3> HIDE DEF before, after
    <3>3. Remaining' \in 0 .. Remaining - 1
      BY <3>1, <3>2
    <3>4. QED
      BY <3>3
  <2>3. QED
    BY <1>1, <2>1, <2>2, SourcesAdvance, CollectorAdvances, PoolAdvances
    DEF Next, Collector, Finished
<1>2. QED
  BY <1>1, SizesInvariant, PTL DEF Spec, InventoryAdvances
=============================================================================
