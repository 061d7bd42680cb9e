--------------------------- MODULE ChangeTracker ----------------------------
(***************************************************************************)
(* Recent changes of the system (change_tracker.rs): the update history,   *)
(* three uninstall keys and the driver packages, whose entries are handed  *)
(* out and opened one after the other while software is installed and      *)
(* removed, then sorted and de-duplicated.  A date is a day of one year.   *)
(***************************************************************************)
EXTENDS Ordering, SequencesExt

CONSTANTS
  Hotfixes,      \* rows of Win32_QuickFixEngineering: [name, month, day]
  Entries,       \* uninstall entries and oem*.inf files that may exist
  Fact,          \* entry |-> [name, date, component, file]: the name it goes
                 \* by ("": none can be read) and the one of its file
  Keys,          \* the uninstall keys and, last, the INF directory, each a
                 \* sequence of entries in the order it lists them
  AtFirst,       \* entries that exist at first
  Since, Until,  \* the window, as dates
  NoDate,        \* a date that is missing or does not parse
  MaxInstalls    \* bound: installations and removals

ASSUME ChangeAssumption ==
  /\ Hotfixes \in Seq(ToSet(Hotfixes))
  /\ \A i \in DOMAIN Hotfixes : Hotfixes[i].month \in 1 .. 12 /\ Hotfixes[i].day \in 1 .. 31
  /\ \A e \in Entries : Fact[e].date \in Nat
  /\ Keys \in Seq(Seq(Entries))
  /\ AtFirst \subseteq Entries
  /\ NoDate = 0 /\ Since \in Nat \ {0} /\ Until \in Nat
  /\ MaxInstalls \in Nat

VARIABLES
  dayFirst,   \* the locale's short date: D/M/YYYY?
  exists,     \* entries that exist
  tracking,   \* step of collect_recent_changes: hotfixes, a key, or sort
  key,        \* the key being read
  counted,    \* entries of it when its walk began
  place,      \* how far its walk has come
  opening,    \* the entry that was handed out and is not opened yet, if any
  changes,
  changeStatus,
  installs,   \* changes so far
  existed,    \* history: entries that existed at some time of the scan
  remained,   \* history: entries that existed throughout
  refused,    \* history: keys that could not be opened
  shifted     \* history: entries that came or went during the walk of their key

walkVars == <<counted, place, opening>>
systemVars == <<dayFirst, exists, installs, existed, remained, shifted>>
changeVars == <<systemVars, walkVars, tracking, key, changes, changeStatus, refused>>

ChangesInit ==
  /\ dayFirst \in BOOLEAN
  /\ exists = AtFirst
  /\ tracking = "hotfixes"
  /\ key = 0 /\ counted = 0 /\ place = 0 /\ opening = {}
  /\ changes = <<>> /\ changeStatus = "none"
  /\ installs = 0
  /\ existed = AtFirst /\ remained = AtFirst
  /\ refused = {} /\ shifted = {}

-----------------------------------------------------------------------------
Day(month, day) == 31 * (month - 1) + day

(* parse_date() of a date with slashes takes the first number for the      *)
(* month.                                                                  *)
ParseDate(first, second) == IF first \in 1 .. 12 /\ second \in 1 .. 31
                            THEN Day(first, second) ELSE NoDate

InstalledOn(h) == IF dayFirst THEN ParseDate(h.day, h.month) ELSE ParseDate(h.month, h.day)

InWindow(date) == date # NoDate /\ Since <= date /\ date <= Until

(* A part of a product is not an install of its own.                       *)
Counts(e) == ~Fact[e].component /\ Fact[e].name # "" /\ InWindow(Fact[e].date)

(* What is being walked: nothing before the first key, nor when opening    *)
(* the key failed.                                                         *)
Walked == IF key \in DOMAIN Keys \ refused THEN Keys[key] ELSE <<>>

SoftwareMoves ==
  /\ tracking # "done" /\ installs < MaxInstalls
  /\ installs' = installs + 1
  /\ \E e \in Entries :
       /\ shifted' = shifted \cup ({e} \cap ToSet(Walked))
       /\ \/ /\ e \in exists
             /\ exists' = exists \ {e}
             /\ remained' = remained \ {e} /\ UNCHANGED existed
          \/ /\ e \notin exists
             /\ exists' = exists \cup {e}
             /\ existed' = existed \cup {e} /\ UNCHANGED remained
  /\ UNCHANGED <<dayFirst, walkVars, tracking, key, changes, changeStatus, refused>>

-----------------------------------------------------------------------------

(* collect_hotfixes(): all of them, or none and a partial answer.          *)
CollectHotfixes ==
  /\ tracking = "hotfixes"
  /\ \/ LET found == Filtered(Hotfixes, {i \in DOMAIN Hotfixes : InWindow(InstalledOn(Hotfixes[i]))}) IN
        /\ changes' = [i \in DOMAIN found |-> [name |-> found[i].name, date |-> InstalledOn(found[i])]]
        /\ changeStatus' = "complete"
     \/ changes' = changes /\ changeStatus' = "partial"
  /\ tracking' = "keys"
  /\ UNCHANGED <<systemVars, walkVars, key, refused>>

(* How many entries a key lists before its i-th.                           *)
Before(entries, i) == Cardinality({j \in 1 .. i - 1 : entries[j] \in exists})

(* What the walk has not passed.  key.keys() asks the live registry for    *)
(* the entry of a number and the next, up to the count it took at first:   *)
(* an entry that goes moves those behind it up, and one of them is passed. *)
(* A directory goes on behind the file it handed out last.                 *)
Ahead == {i \in DOMAIN Walked :
            /\ Walked[i] \in exists
            /\ IF key = Len(Keys) THEN place < i
               ELSE place <= Before(Walked, i) /\ place < counted}

(* The next name, whose entry is opened in a step of its own.              *)
NextName ==
  /\ tracking = "keys" /\ opening = {}
  /\ \E i \in Ahead : /\ \A j \in Ahead : i <= j
                      /\ opening' = {Walked[i]}
                      /\ place' = IF key = Len(Keys) THEN i ELSE place + 1
  /\ UNCHANGED <<systemVars, tracking, key, counted, changes, changeStatus, refused>>

(* A key or directory that cannot be opened is passed over without a word. *)
OpenKey ==
  /\ tracking = "keys" /\ opening = {} /\ Ahead = {} /\ key < Len(Keys)
  /\ key' = key + 1 /\ place' = 0
  /\ counted' = Before(Keys[key'], Len(Keys[key']) + 1)
  /\ refused' \in {refused, refused \cup {key'}}
  /\ UNCHANGED <<systemVars, tracking, opening, changes, changeStatus>>

(* An entry that is gone is passed over; the date of a file came with its  *)
(* name, so a file that is gone is listed, by its own name.                *)
OpenEntry ==
  /\ tracking = "keys"
  /\ \E e \in opening :
       changes' = IF Counts(e) /\ (e \in exists \/ key = Len(Keys))
                  THEN Append(changes, [name |-> IF e \in exists THEN Fact[e].name ELSE Fact[e].file,
                                        date |-> Fact[e].date])
                  ELSE changes
  /\ opening' = {}
  /\ UNCHANGED <<systemVars, tracking, key, counted, place, changeStatus, refused>>

(* Variant: one change for a name, whenever it was.                        *)
Same_Name(c, d) == c.name = d.name

Same(c, d) == c.name = d.name /\ c.date = d.date

(* Stable, newest first; then a change equal to the one before it goes.    *)
ByDate(cs) == {p \in Pairs(DOMAIN cs) :
                 \/ cs[p[1]].date > cs[p[2]].date
                 \/ cs[p[1]].date = cs[p[2]].date /\ p[1] < p[2]}

NewestFirst(cs) == Arranged(cs, DOMAIN cs, ByDate(cs))

Deduped(cs) == Filtered(cs, {i \in DOMAIN cs : i > 1 => ~Same(cs[i], cs[i - 1])})

SortChanges ==
  /\ tracking = "keys" /\ opening = {} /\ Ahead = {} /\ key = Len(Keys)
  /\ tracking' = "done"
  /\ \E sorted \in {NewestFirst(changes)} : changes' = Deduped(sorted)
  /\ UNCHANGED <<systemVars, walkVars, key, changeStatus, refused>>

CollectChanges == CollectHotfixes \/ NextName \/ OpenKey \/ OpenEntry \/ SortChanges

-----------------------------------------------------------------------------
Holds(name, date) == \E i \in DOMAIN changes : changes[i] = [name |-> name, date |-> date]

(* Whether nothing that a key lists before its i-th entry came or went     *)
(* while the key was walked; a directory does not count.                   *)
Steady(k, i) == k = Len(Keys) \/ \A j \in 1 .. i - 1 : Keys[k][j] \notin shifted

(* A finished list of changes runs from the newest to the oldest; whatever *)
(* was installed and of the window all the time is in it, also when the    *)
(* same name was installed on two days, unless its key could not be opened *)
(* or something before it in its key came or went during the walk of the   *)
(* key, and so is each update where the locale writes the month first;     *)
(* nothing is in it that never was; and two equal changes have another of  *)
(* the same date between them, since dedup_by sees neighbours only         *)
(* (change_tracker.rs 59-60).  Its status tells of the updates alone.      *)
ChangesAreListed == tracking = "done" =>
  /\ \A i, j \in DOMAIN changes : i < j =>
       /\ changes[i].date >= changes[j].date
       /\ changes[i] = changes[j] =>
            \E k \in i .. j : changes[k].date = changes[i].date /\ changes[k] # changes[i]
  /\ \A k \in DOMAIN Keys \ refused : \A i \in DOMAIN Keys[k] :
       LET e == Keys[k][i] IN
         e \in remained /\ Counts(e) /\ Steady(k, i) => Holds(Fact[e].name, Fact[e].date)
  /\ changeStatus = "complete" /\ ~dayFirst =>
       \A i \in DOMAIN Hotfixes :
         LET h == Hotfixes[i] IN InWindow(Day(h.month, h.day)) => Holds(h.name, Day(h.month, h.day))
  /\ \A i \in DOMAIN changes :
       \/ \E e \in existed : /\ Counts(e) /\ changes[i].name \in {Fact[e].name, Fact[e].file}
                            /\ changes[i].date = Fact[e].date
       \/ changeStatus = "complete" /\ InWindow(changes[i].date)
            /\ \E h \in DOMAIN Hotfixes : Hotfixes[h].name = changes[i].name
=============================================================================
