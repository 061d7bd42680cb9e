-------------------------- MODULE DriverInventory --------------------------
(***************************************************************************)
(* WindowsDriverInventory::collect_drivers: WMI lists the running driver   *)
(* services, PSAPI lists the loaded modules with their addresses, the two  *)
(* are merged, and a pool of scoped threads does the expensive work per    *)
(* file (hash, signature, version, size), sharing one queue and one result *)
(* list, each behind a mutex.                                              *)
(*                                                                         *)
(* A candidate is known by its position in `candidates`; what enrich_one   *)
(* reads from the file is a function of the file and is left out.  Paths   *)
(* stand for paths that differ by more than case.                          *)
(***************************************************************************)
EXTENDS Integers, Sequences, FiniteSets

CONSTANTS
  Paths,        \* image paths on the machine
  Name,         \* path |-> its file name in lower case, as a number
  Address,      \* path |-> load address of its module; 0 while hidden
  Parallelism,  \* available_parallelism(), or 4 when that fails
  WmiMayFail,   \* may the WMI connection or query fail?
  MayPanic,     \* may enrich_one panic?
  MaxListed,    \* bound: driver services WMI lists
  MaxLoaded     \* bound: modules PSAPI lists

ASSUME MachineAssumption ==
  /\ Name \in [Paths -> Nat]
  /\ Address \in [Paths -> Nat]
  /\ Parallelism \in Nat
  /\ {WmiMayFail, MayPanic} \subseteq BOOLEAN
  /\ MaxListed \in Nat
  /\ MaxLoaded \in Nat

VARIABLES
  collector,    \* step of the thread in collect_drivers
  wmiFailed,
  modules,      \* what PSAPI listed: paths
  merged,       \* how many of them are merged
  candidates,
  taken,        \* candidates taken from the queue
  worker,       \* step of each pool thread
  item,         \* the candidate a pool thread enriches, 0 for none
  local,        \* what each pool thread has enriched
  results,      \* the shared list
  drivers,      \* the value returned, as positions in candidates
  status        \* the status returned with it

sourceVars == <<wmiFailed, modules, merged, candidates>>
poolVars   == <<taken, worker, item, local, results>>
reportVars == <<drivers, status>>
vars       == <<collector, sourceVars, poolVars, reportVars>>

(* worker_count(): the parallelism clamped to 1 .. 8.                      *)
WorkerCount ==
  IF Parallelism < 1 THEN 1 ELSE IF Parallelism > 8 THEN 8 ELSE Parallelism

Workers == 1 .. WorkerCount

Candidate == [path : Paths, base : Nat]

Positions == 1 .. Len(candidates)

(* No more threads than candidates, and at least one.                      *)
Spawned == {w \in Workers : w <= Len(candidates) \/ w = 1}

Ended == {w \in Workers : worker[w] \in {"ended", "panicked"}}

(* Sequences over S of at most n elements, and those that repeat nothing.  *)
Listings(S, n) == UNION {[1 .. k -> S] : k \in 0 .. n}

Distinct(s) == \A i, j \in DOMAIN s : s[i] = s[j] => i = j

Init ==
  /\ collector = "query"
  /\ wmiFailed = FALSE
  /\ modules = <<>> /\ merged = 0
  /\ candidates = <<>>
  /\ taken = 0
  /\ worker = [w \in Workers |-> "unborn"]
  /\ item = [w \in Workers |-> 0]
  /\ local = [w \in Workers |-> <<>>]
  /\ results = <<>>
  /\ drivers = <<>> /\ status = "none"

-----------------------------------------------------------------------------
(* The two sources.                                                        *)

(* Several services may run from one image; no service has an address.     *)
QueryServices ==
  /\ collector = "query"
  /\ collector' = "enumerate"
  /\ \E services \in Listings(Paths, MaxListed) :
       candidates' = [i \in 1 .. Len(services) |-> [path |-> services[i], base |-> 0]]
  /\ UNCHANGED <<wmiFailed, modules, merged, poolVars, reportVars>>

QueryFails ==
  /\ collector = "query" /\ WmiMayFail
  /\ collector' = "enumerate"
  /\ wmiFailed' = TRUE
  /\ UNCHANGED <<modules, merged, candidates, poolVars, reportVars>>

(* An image is loaded once.  A failed call lists nothing.                  *)
EnumerateModules ==
  /\ collector = "enumerate"
  /\ collector' = "merge"
  /\ \E listed \in Listings(Paths, MaxLoaded) : Distinct(listed) /\ modules' = listed
  /\ UNCHANGED <<wmiFailed, merged, candidates, poolVars, reportVars>>

(* Variant: every candidate with the module's path gets its address.       *)
Merge_EveryMatch(path) ==
  candidates' =
    IF \E i \in Positions : candidates[i].path = path
    THEN [i \in Positions |->
            IF candidates[i].path = path THEN [path |-> path, base |-> Address[path]]
            ELSE candidates[i]]
    ELSE Append(candidates, [path |-> path, base |-> Address[path]])

(* The first candidate with the module's path gets its address; a module   *)
(* WMI did not list becomes a candidate of its own.                        *)
Merge(path) ==
  \/ \E i \in Positions :
       /\ candidates[i].path = path
       /\ \A j \in 1 .. i - 1 : candidates[j].path # path
       /\ candidates' = [candidates EXCEPT ![i].base = Address[path]]
  \/ /\ \A i \in Positions : candidates[i].path # path
     /\ candidates' = Append(candidates, [path |-> path, base |-> Address[path]])

MergeModule ==
  /\ collector = "merge" /\ merged < Len(modules)
  /\ Merge(modules[merged + 1])
  /\ merged' = merged + 1
  /\ UNCHANGED <<collector, wmiFailed, modules, poolVars, reportVars>>

-----------------------------------------------------------------------------
(* The pool.                                                               *)

SpawnWorkers ==
  /\ collector = "merge" /\ merged = Len(modules)
  /\ collector' = "wait"
  /\ worker' = [w \in Workers |-> IF w \in Spawned THEN "take" ELSE "ended"]
  /\ UNCHANGED <<sourceVars, taken, item, local, results, reportVars>>

(* lock, next and unlock in one expression.                                *)
Take(w) ==
  /\ worker[w] = "take" /\ taken < Len(candidates)
  /\ taken' = taken + 1
  /\ item' = [item EXCEPT ![w] = taken']
  /\ worker' = [worker EXCEPT ![w] = "enrich"]
  /\ UNCHANGED <<collector, sourceVars, local, results, reportVars>>

(* Variant: an empty queue is tried again.                                *)
QueueEmpty_Retried(w) ==
  worker[w] = "take" /\ taken = Len(candidates) /\ UNCHANGED vars

QueueEmpty(w) ==
  /\ worker[w] = "take" /\ taken = Len(candidates)
  /\ worker' = [worker EXCEPT ![w] = "publish"]
  /\ UNCHANGED <<collector, sourceVars, taken, item, local, results, reportVars>>

Enrich(w) ==
  /\ worker[w] = "enrich"
  /\ local' = [local EXCEPT ![w] = Append(@, item[w])]
  /\ item' = [item EXCEPT ![w] = 0]
  /\ worker' = [worker EXCEPT ![w] = "take"]
  /\ UNCHANGED <<collector, sourceVars, taken, results, reportVars>>

(* No lock is held while a candidate is enriched, so none is poisoned; the *)
(* thread's own list unwinds with it.                                      *)
EnrichPanics(w) ==
  /\ worker[w] = "enrich" /\ MayPanic
  /\ worker' = [worker EXCEPT ![w] = "panicked"]
  /\ item' = [item EXCEPT ![w] = 0]
  /\ local' = [local EXCEPT ![w] = <<>>]
  /\ UNCHANGED <<collector, sourceVars, taken, results, reportVars>>

Publish(w) ==
  /\ worker[w] = "publish"
  /\ results' = results \o local[w]
  /\ local' = [local EXCEPT ![w] = <<>>]
  /\ worker' = [worker EXCEPT ![w] = "ended"]
  /\ UNCHANGED <<collector, sourceVars, taken, item, reportVars>>

(* The scope ends when every thread has, and panics if one of them did.    *)
ScopePanics ==
  /\ collector = "wait" /\ Ended = Workers
  /\ \E w \in Workers : worker[w] = "panicked"
  /\ collector' = "panicked"
  /\ UNCHANGED <<sourceVars, poolVars, reportVars>>

Permutes(order) == \A i \in DOMAIN results : \E k \in DOMAIN results : order[k] = i

(* Variant: the list stays in the order the threads published it.          *)
IsSorted_NotAtAll(order) == \A k \in DOMAIN results : order[k] = k

(* Vec::sort_by is stable: equal names keep the order of `results`.        *)
IsSorted(order) ==
  LET key(k) == Name[candidates[results[order[k]]].path]
  IN  /\ Permutes(order)
      /\ \A k, l \in DOMAIN results :
           k < l => \/ key(k) < key(l)
                    \/ key(k) = key(l) /\ order[k] < order[l]

(* Variant: one driver without an address is enough.                       *)
Hidden_Any(list) == \E k \in DOMAIN list : candidates[list[k]].base = 0

Hidden(list) ==
  list # <<>> /\ \A k \in DOMAIN list : candidates[list[k]].base = 0

Status(list) ==
  IF wmiFailed THEN "partial: services unknown"
  ELSE IF Hidden(list) THEN "partial: addresses hidden, run as Administrator"
  ELSE "complete"

Report ==
  /\ collector = "wait" /\ Ended = Workers
  /\ \A w \in Workers : worker[w] # "panicked"
  /\ collector' = "done"
  /\ \E order \in [DOMAIN results -> DOMAIN results] :
       /\ IsSorted(order)
       /\ drivers' = [k \in DOMAIN results |-> results[order[k]]]
  /\ status' = Status(drivers')
  /\ UNCHANGED <<sourceVars, poolVars>>

-----------------------------------------------------------------------------
Sources == QueryServices \/ QueryFails \/ EnumerateModules \/ MergeModule

Pool(w) == Take(w) \/ QueueEmpty(w) \/ Enrich(w) \/ EnrichPanics(w) \/ Publish(w)

Collector == Sources \/ SpawnWorkers \/ ScopePanics \/ Report

Finished == collector \in {"done", "panicked"} /\ UNCHANGED vars

Next == Collector \/ (\E w \in Workers : Pool(w)) \/ Finished

Spec == Init /\ [][Next]_vars

(* Every thread is scheduled; a lock is held for a few instructions only.  *)
FairSpec == Spec /\ WF_vars(Collector) /\ \A w \in Workers : WF_vars(Pool(w))

-----------------------------------------------------------------------------
(* Properties.                                                             *)

(* The variables keep their types.                                         *)
TypeOK ==
  /\ collector \in {"query", "enumerate", "merge", "wait", "done", "panicked"}
  /\ wmiFailed \in BOOLEAN
  /\ modules \in Seq(Paths)
  /\ merged \in 0 .. Len(modules)
  /\ candidates \in Seq(Candidate)
  /\ taken \in 0 .. Len(candidates)
  /\ worker \in [Workers -> {"unborn", "take", "enrich", "publish", "ended", "panicked"}]
  /\ item \in [Workers -> 0 .. Len(candidates)]
  /\ local \in [Workers -> Seq(Positions)]
  /\ results \in Seq(Positions)
  /\ drivers \in Seq(Positions)
  /\ status \in {"none", "complete", "partial: services unknown",
                 "partial: addresses hidden, run as Administrator"}

InHand(i) == {<<w, 0>> : w \in {v \in Workers : item[v] = i}}
InList(w, i) == {<<w, k>> : k \in {j \in DOMAIN local[w] : local[w][j] = i}}
InLists(i) == UNION {InList(w, i) : w \in Workers}
Shared(i) == {<<0, k>> : k \in {j \in DOMAIN results : results[j] = i}}

(* Where candidate i is: with a thread, in its list, or in the shared one. *)
Places(i) == InHand(i) \cup InLists(i) \cup Shared(i)

(* A candidate still queued is nowhere else, and one that was taken is in  *)
(* one place - in none only if a thread panicked.  So no driver is missed  *)
(* or listed twice, however the threads share the queue.                   *)
EachOnce ==
  \A i \in Positions :
    /\ i > taken => Places(i) = {}
    /\ \A p, q \in Places(i) : p = q
    /\ i <= taken /\ Places(i) = {} => \E w \in Workers : worker[w] = "panicked"

(* The same, step by step: why no candidate can be in two places.  A list  *)
(* never shares an element with another, an item is in no list, and only a *)
(* panic makes a candidate disappear.                                      *)
Apart ==
  /\ \A v, w \in Workers : item[v] = item[w] /\ item[v] # 0 => v = w
  /\ \A v, w \in Workers : \A k \in DOMAIN local[w] : item[v] # local[w][k]
  /\ \A v \in Workers : \A k \in DOMAIN results : item[v] # results[k]
  /\ \A v, w \in Workers : \A j \in DOMAIN local[v], k \in DOMAIN local[w] :
       local[v][j] = local[w][k] => v = w /\ j = k
  /\ \A v \in Workers : \A j \in DOMAIN local[v], k \in DOMAIN results :
       local[v][j] # results[k]
  /\ \A j, k \in DOMAIN results : results[j] = results[k] => j = k

OnlyTaken ==
  /\ \A w \in Workers : item[w] <= taken
  /\ \A w \in Workers : \A k \in DOMAIN local[w] : local[w][k] <= taken
  /\ \A k \in DOMAIN results : results[k] <= taken

AllKept ==
  \A i \in 1 .. taken :
    \/ \E w \in Workers : item[w] = i
    \/ \E w \in Workers : \E k \in DOMAIN local[w] : local[w][k] = i
    \/ \E k \in DOMAIN results : results[k] = i
    \/ \E w \in Workers : worker[w] = "panicked"

ThreadState ==
  /\ collector \in {"query", "enumerate", "merge"} =>
       /\ taken = 0 /\ results = <<>>
       /\ \A w \in Workers : worker[w] = "unborn"
  /\ collector \in {"query", "enumerate"} => merged = 0
  /\ collector # "done" => drivers = <<>>
  /\ \A w \in Workers : worker[w] = "enrich" <=> item[w] # 0
  /\ \A w \in Workers : worker[w] \in {"unborn", "ended", "panicked"} => local[w] = <<>>
  /\ \A w \in Spawned : worker[w] \in {"publish", "ended"} => taken = Len(candidates)

PoolInv == Apart /\ OnlyTaken /\ AllKept /\ ThreadState

(* Why no address is lost or doubled: a module is listed once, what is      *)
(* merged has a candidate, and only a merged module gives an address.      *)
Loaded(path) == [path |-> path, base |-> Address[path]]

MergeInv ==
  /\ Distinct(modules)
  /\ collector \in {"query", "enumerate"} => modules = <<>>
  /\ collector \notin {"query", "enumerate", "merge"} => merged = Len(modules)
  /\ \A m \in 1 .. merged : \E i \in Positions : candidates[i] = Loaded(modules[m])
  /\ \A i \in Positions :
       candidates[i].base # 0 =>
         \E m \in 1 .. merged : candidates[i] = Loaded(modules[m])
  /\ \A i, j \in Positions :
       candidates[i].base # 0 /\ candidates[j] = candidates[i] => i = j
  /\ collector = "done" => status = Status(drivers)

(* Whatever WMI knows of a loaded module, exactly one driver of the report *)
(* carries its address: the report and the bundle list it with the module. *)
AddressesSurvive ==
  collector = "done" =>
    \A m \in DOMAIN modules :
      LET owns(k) == /\ candidates[drivers[k]].path = modules[m]
                     /\ candidates[drivers[k]].base = Address[modules[m]]
      IN  Address[modules[m]] # 0 =>
            \E k \in DOMAIN drivers :
              owns(k) /\ \A l \in DOMAIN drivers : owns(l) => l = k

(* The listing is called complete exactly when the services are known and  *)
(* load addresses are visible: a module with an address was listed, unless *)
(* there was no driver at all.                                             *)
StatusIsHonest ==
  collector = "done" =>
    (status = "complete" <=>
       /\ ~wmiFailed
       /\ \/ drivers = <<>>
          \/ \E m \in DOMAIN modules : Address[modules[m]] # 0)

(* A panic in one thread costs its own work only: as long as one thread    *)
(* survives, every candidate is still taken before the scope ends.         *)
SurvivorsDrainTheQueue ==
  (/\ collector \in {"done", "panicked"}
   /\ \E w \in Spawned : worker[w] = "ended")
    => taken = Len(candidates)

(* However the threads interleave, the listing is the one DriverListing    *)
(* promises: all images, each once, by name - or none.                     *)
Listing == INSTANCE DriverListing WITH
  stage  <- IF collector = "wait" THEN "found"
            ELSE IF collector = "done" THEN "listed"
            ELSE IF collector = "panicked" THEN "lost"
            ELSE "finding",
  found  <- candidates,
  listed <- drivers

ImplementsListing == Listing!Spec

(* The most steps the inventory still has to make: those of the collector, *)
(* the modules to merge and, for each thread and each candidate not taken, *)
(* what is left of its work.                                               *)
CollectorSteps ==
  [query |-> 4, enumerate |-> 3, merge |-> 2, wait |-> 1, done |-> 0, panicked |-> 0]

ToMerge ==
  IF collector \in {"query", "enumerate"} THEN MaxLoaded ELSE Len(modules) - merged

ToTake ==
  IF collector \in {"query", "enumerate", "merge"} THEN MaxListed + MaxLoaded
  ELSE Len(candidates) - taken

ToEnd     == Workers \ Ended
ToDrain   == {w \in ToEnd : worker[w] # "publish"}
Enriching == {w \in Workers : worker[w] = "enrich"}
ToEnrich  == 2 * ToTake + Cardinality(Enriching)

Remaining ==
  CollectorSteps[collector] + ToMerge + ToEnrich + Cardinality(ToEnd) + Cardinality(ToDrain)

(* No candidate goes back to the queue and no thread starts over: whatever *)
(* panics, each step brings the inventory closer to its end.               *)
InventoryAdvances == [][Remaining' \in 0 .. Remaining - 1]_vars

(* The scan always gets an answer from the inventory, be it a panic.       *)
InventoryEnds == <>(collector \in {"done", "panicked"})
=============================================================================
