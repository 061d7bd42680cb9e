------------------------------- MODULE Corpus -------------------------------
(***************************************************************************)
(* The corpus of known-vulnerable drivers (loldrivers.rs): the file that   *)
(* `winsleuth update-blocklist` fetches and writes in place, the copy a    *)
(* process takes of it at its first lookup and keeps (CORPUS, a OnceLock), *)
(* and the match of one driver.                                            *)
(*                                                                         *)
(* A build of a driver stands for its SHA-256.  What an entry says of a    *)
(* build (name, category, CVEs) is left out.                               *)
(***************************************************************************)
EXTENDS Naturals

CONSTANTS
  Drivers,     \* loaded drivers, by path
  Builds,      \* builds of driver files
  Curated,     \* drivers whose file name is in KNOWN_VULNERABLE
  Feeds,       \* what loldrivers.io may answer: sets of SHA256 fields
  Unreadable,  \* no file, or no hash of it
  MaxUpdates   \* bound: feeds fetched

ASSUME CorpusAssumption ==
  /\ Curated \subseteq Drivers
  /\ Unreadable \notin Builds
  /\ MaxUpdates \in Nat

VARIABLES
  corpusFile,  \* loldrivers.json: absent, torn or whole, and its hashes
  updater,     \* step of update_corpus
  body,        \* the hashes parsed from the feed
  updates,     \* feeds fetched so far
  cache,       \* CORPUS of the scanning process
  stored,      \* history: the hashes of the last update that succeeded
  known        \* history: what had been stored, and whether the file was
               \* torn, when the process took its copy

corpusVars == <<corpusFile, updater, body, updates, stored>>
cacheVars  == <<cache, known>>

Unset == [filled |-> FALSE, hashes |-> {}]

Nothing == [told |-> {}, torn |-> FALSE]

Known == [told |-> stored, torn |-> corpusFile.state = "torn"]

CorpusInit ==
  /\ corpusFile = [state |-> "absent", hashes |-> {}]
  /\ updater = "idle" /\ body = {} /\ updates = 0
  /\ cache = Unset
  /\ stored = {}
  /\ known = Nothing

-----------------------------------------------------------------------------
(* update_corpus().                                                        *)

(* Fields that are no SHA-256 are skipped, not stored.                     *)
ParseCorpus(feed) == feed \cap Builds

(* A request, a feed or a directory that fails ends the update before it   *)
(* has touched the file: nothing changes.                                  *)
Fetch ==
  /\ updater = "idle" /\ updates < MaxUpdates
  /\ updates' = updates + 1
  /\ updater' = "fetched"
  /\ \E feed \in Feeds : body' = ParseCorpus(feed)
  /\ UNCHANGED <<corpusFile, stored, cacheVars>>

(* fs::write truncates the file it is going to fill.                       *)
Truncate ==
  /\ updater = "fetched"
  /\ updater' = "writing"
  /\ corpusFile' = [state |-> "torn", hashes |-> {}]
  /\ UNCHANGED <<body, updates, stored, cacheVars>>

Fill ==
  /\ updater = "writing"
  /\ updater' = "idle"
  /\ corpusFile' = [state |-> "whole", hashes |-> body]
  /\ stored' = body /\ body' = {}
  /\ UNCHANGED <<updates, cacheVars>>

(* The update ends early: killed, or the disk is full.  What it has        *)
(* written stays.                                                          *)
UpdateCut ==
  /\ updater \in {"fetched", "writing"}
  /\ updater' = "idle" /\ body' = {}
  /\ UNCHANGED <<corpusFile, updates, stored, cacheVars>>

Update == Fetch \/ Truncate \/ Fill \/ UpdateCut

-----------------------------------------------------------------------------
(* lookup().                                                               *)

(* A file that is missing or does not parse is an empty corpus.            *)
OnDisk == IF corpusFile.state = "whole" THEN corpusFile.hashes ELSE {}

(* Variant: each lookup reads the file.                                    *)
FillCache_EachTime ==
  /\ cache' = [filled |-> TRUE, hashes |-> OnDisk]
  /\ known' = IF cache.filled THEN known ELSE Known

(* get_or_init: the first lookup of a process reads the file for all.      *)
FillCache ==
  IF cache.filled THEN UNCHANGED cacheVars
  ELSE /\ cache' = [filled |-> TRUE, hashes |-> OnDisk]
       /\ known' = Known

(* The table of file names that are abused most, always at hand.           *)
KnownVulnerable(d) == d \in Curated

(* Variant: the curated names come first.                                  *)
Match_NamesFirst(d, hash, hashes) ==
  IF KnownVulnerable(d) THEN "file name"
  ELSE IF hash \in hashes THEN "SHA-256"
  ELSE "none"

(* An exact build outranks a name.                                         *)
Match(d, hash, hashes) ==
  IF hash \in hashes THEN "SHA-256"
  ELSE IF KnownVulnerable(d) THEN "file name"
  ELSE "none"

(* The corpus is asked only for a driver that has a hash.                  *)
Lookup(hash) ==
  IF hash = Unreadable THEN UNCHANGED cacheVars ELSE FillCache

-----------------------------------------------------------------------------
CorpusTypeOK ==
  /\ corpusFile \in [state : {"absent", "torn", "whole"}, hashes : SUBSET Builds]
  /\ updater \in {"idle", "fetched", "writing"}
  /\ body \subseteq Builds
  /\ updates \in 0 .. MaxUpdates
  /\ cache \in [filled : BOOLEAN, hashes : SUBSET Builds]
  /\ stored \subseteq Builds
  /\ known \in [told : SUBSET Builds, torn : BOOLEAN]

(* A whole corpus is the one the last successful update announced; one is  *)
(* missing only where none was; and a copy is of what the user had been    *)
(* told, all of it if the file was not torn.                               *)
CorpusInv ==
  /\ corpusFile.state = "whole" => corpusFile.hashes = stored
  /\ corpusFile.state = "absent" => stored = {}
  /\ cache.hashes \subseteq known.told
  /\ cache.filled /\ ~known.torn => cache.hashes = known.told
=============================================================================
