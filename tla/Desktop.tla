------------------------------ MODULE Desktop ------------------------------
(***************************************************************************)
(* One process that scans, above all the desktop interface (ui.rs), which  *)
(* scans as often as its user asks, on a thread that answers through a     *)
(* mutex and a repaint; a scan of the command line is a process of one     *)
(* scan.  Of the scan this is the examination of each driver's file        *)
(* (enrich_one), one opening of the file at a time, while files may be     *)
(* replaced and the corpus updated.  The thread pool is in DriverInventory *)
(* and the rest of the scan in ScanEngine.                                 *)
(***************************************************************************)
EXTENDS Corpus, DriverFile

CONSTANTS
  Installed,    \* driver |-> build its path holds at first
  Words,        \* driver |-> categories its names and path suggest
  CompanyWords, \* company |-> categories it suggests
  MaxScans,     \* bound: scans
  MaxReplaced   \* bound: replacements of files

ASSUME DesktopAssumption ==
  /\ Contents = Builds \cup {Unreadable}
  /\ Missing = Unreadable
  /\ Installed \in [Drivers -> Contents]
  /\ Words \in [Drivers -> SUBSET Purposes]
  /\ CompanyWords \in [Texts -> SUBSET Purposes]
  /\ MaxScans \in Nat
  /\ MaxReplaced \in Nat

VARIABLES
  open,       \* is the process there?
  panel,      \* ScanState: idle, running, done or failed
  owed,       \* has a scan thread answered and not yet asked for a frame?
  repaint,    \* is a frame requested?
  shown,      \* the state the last frame showed
  scans,
  content,    \* what each path holds
  replaced,
  stage,      \* how far each driver of the scan is examined
  entry,      \* DriverInfo of each driver
  seen,       \* history: what the path held since the scan began
  unasked     \* history: drivers whose catalog vouches and was not asked

panelVars == <<open, panel, owed, repaint, shown, scans>>
fileVars  == <<content, replaced>>
entryVars == <<stage, entry>>
historyVars == <<seen, unasked>>
vars == <<corpusVars, cacheVars, panelVars, fileVars, entryVars, historyVars>>

Blank == [signature |-> Unknown, version |-> "", company |-> "", size |-> 0,
          hash |-> Unreadable, category |-> "other", vulnerability |-> "none"]

Init ==
  /\ CorpusInit
  /\ open = FALSE
  /\ panel = "idle" /\ shown = "idle"
  /\ owed = FALSE /\ repaint = FALSE
  /\ scans = 0
  /\ content = Installed /\ replaced = 0
  /\ stage = [d \in Drivers |-> "waiting"]
  /\ entry = [d \in Drivers |-> Blank]
  /\ seen = [d \in Drivers |-> {}]
  /\ unasked = {}

-----------------------------------------------------------------------------
(* The window.                                                             *)

Launch ==
  /\ ~open
  /\ open' = TRUE
  /\ repaint' = TRUE
  /\ UNCHANGED <<corpusVars, cacheVars, panel, owed, shown, scans, fileVars, entryVars, historyVars>>

(* The process ends with its window; its threads and its copy of the       *)
(* corpus end with it.                                                     *)
Close ==
  /\ open
  /\ open' = FALSE
  /\ panel' = "idle" /\ shown' = "idle"
  /\ owed' = FALSE /\ repaint' = FALSE
  /\ cache' = Unset
  /\ stage' = [d \in Drivers |-> "waiting"]
  /\ known' = Nothing
  /\ entry' = [d \in Drivers |-> Blank]
  /\ seen' = [d \in Drivers |-> {}]
  /\ unasked' = {}
  /\ UNCHANGED <<corpusVars, scans, fileVars>>

(* A click, which is part of a frame; the frame then shows the new state.  *)
StartScan ==
  /\ open /\ panel # "running" /\ scans < MaxScans
  /\ scans' = scans + 1
  /\ panel' = "running" /\ shown' = "running"
  /\ repaint' = TRUE
  /\ stage' = [d \in Drivers |-> "waiting"]
  /\ entry' = [d \in Drivers |-> Blank]
  /\ seen' = [d \in Drivers |-> {content[d]}]
  /\ unasked' = {}
  /\ UNCHANGED <<corpusVars, cacheVars, open, owed, fileVars>>

(* A frame: because one was requested, or because of the user's input.     *)
Draw ==
  /\ open
  /\ shown' = panel
  /\ repaint' = FALSE
  /\ UNCHANGED <<corpusVars, cacheVars, open, panel, owed, scans, fileVars, entryVars, historyVars>>

-----------------------------------------------------------------------------
(* The scan thread: enrich_one for each driver, side by side.              *)

Examine(d, from, to) ==
  /\ panel = "running"
  /\ stage[d] = from
  /\ stage' = [stage EXCEPT ![d] = to]
  /\ UNCHANGED <<corpusVars, panelVars, fileVars, seen>>

(* verify() opens the file; the thread's catalog context may be null,      *)
(* because CryptCATAdminAcquireContext2 failed unnoticed.                  *)
AskCatalog(d) ==
  LET b == content[d] IN
  /\ \E context \in BOOLEAN :
       /\ \/ /\ b = Unreadable
             /\ entry' = [entry EXCEPT ![d].signature = Unknown]
             /\ Examine(d, "waiting", "verified")
          \/ /\ b # Unreadable /\ CatalogVouches(b, context)
             /\ entry' = [entry EXCEPT ![d].signature = Signed("catalog", b)]
             /\ Examine(d, "waiting", "verified")
          \/ /\ b # Unreadable /\ ~CatalogVouches(b, context)
             /\ entry' = entry
             /\ Examine(d, "waiting", "not in a catalog")
       /\ unasked' = IF b # Unreadable /\ ~context /\ File[b].catalog = "valid"
                      THEN unasked \cup {d} ELSE unasked
  /\ UNCHANGED cacheVars

AskFile(d) ==
  /\ Examine(d, "not in a catalog", "verified")
  /\ entry' = [entry EXCEPT ![d].signature = Embedded(content[d])]
  /\ UNCHANGED <<cacheVars, unasked>>

(* version_info() and image_size() open the file one after the other;      *)
(* nothing relates what they read.                                         *)
ReadHeader(d) ==
  /\ Examine(d, "verified", "read")
  /\ entry' = [entry EXCEPT ![d].version = Version(content[d]),
                            ![d].company = Company(content[d]),
                            ![d].size = ImageSize(content[d])]
  /\ UNCHANGED <<cacheVars, unasked>>

HashFile(d) ==
  /\ Examine(d, "read", "hashed")
  /\ entry' = [entry EXCEPT ![d].hash = content[d]]
  /\ UNCHANGED <<cacheVars, unasked>>

Finish(d) ==
  /\ Examine(d, "hashed", "examined")
  /\ Lookup(entry[d].hash)
  /\ LET words == Words[d] \cup CompanyWords[entry[d].company]
     IN  entry' = [entry EXCEPT
           ![d].category = Categorise(words),
           ![d].vulnerability = Match(d, entry[d].hash, cache'.hashes)]
  /\ UNCHANGED unasked

(* catch_unwind turns a panic anywhere in run_scan() into a message.       *)
ScanPanics ==
  /\ panel = "running"
  /\ panel' = "failed"
  /\ owed' = TRUE
  /\ UNCHANGED <<corpusVars, cacheVars, open, repaint, shown, scans, fileVars, entryVars, historyVars>>

ScanEnds ==
  /\ panel = "running"
  /\ \A d \in Drivers : stage[d] = "examined"
  /\ panel' = "done"
  /\ owed' = TRUE
  /\ UNCHANGED <<corpusVars, cacheVars, open, repaint, shown, scans, fileVars, entryVars, historyVars>>

(* Variant: no frame is requested; the answer waits for the user's input.  *)
RequestRepaint_Never ==
  /\ owed
  /\ owed' = FALSE
  /\ UNCHANGED <<corpusVars, cacheVars, open, panel, repaint, shown, scans, fileVars, entryVars, historyVars>>

RequestRepaint ==
  /\ owed
  /\ owed' = FALSE
  /\ repaint' = TRUE
  /\ UNCHANGED <<corpusVars, cacheVars, open, panel, shown, scans, fileVars, entryVars, historyVars>>

(* What `inspect-drivers` and the drivers tab list unless told otherwise.  *)
Listed == {d \in Drivers : ~IsMicrosoft(entry[d].signature)}

-----------------------------------------------------------------------------
(* Around the process.                                                     *)

(* An installer or an uninstaller; the driver stays loaded.                *)
ReplaceFile(d) ==
  /\ replaced < MaxReplaced
  /\ replaced' = replaced + 1
  /\ \E b \in Contents \ {content[d]} :
       /\ content' = [content EXCEPT ![d] = b]
       /\ seen' = [seen EXCEPT ![d] = IF panel = "running" THEN @ \cup {b} ELSE @]
  /\ UNCHANGED <<corpusVars, cacheVars, panelVars, entryVars, unasked>>

UpdateBlocklist ==
  /\ Update
  /\ UNCHANGED <<panelVars, fileVars, entryVars, historyVars>>

-----------------------------------------------------------------------------
Enrich(d) == AskCatalog(d) \/ AskFile(d) \/ ReadHeader(d) \/ HashFile(d) \/ Finish(d)

ScanThread == (\E d \in Drivers : Enrich(d)) \/ ScanPanics \/ ScanEnds

Window == Launch \/ Close \/ StartScan \/ Draw

Around == (\E d \in Drivers : ReplaceFile(d)) \/ UpdateBlocklist

Next == Window \/ ScanThread \/ RequestRepaint \/ Around

Spec == Init /\ [][Next]_vars

(* The scan thread is scheduled and a frame that was requested is drawn;   *)
(* nobody has to click, to close, to replace or to update anything.        *)
FairSpec ==
  /\ Spec
  /\ WF_vars(ScanThread)
  /\ WF_vars(RequestRepaint)
  /\ WF_vars(repaint /\ Draw)

-----------------------------------------------------------------------------
(* Properties.                                                             *)

Stages == {"waiting", "not in a catalog", "verified", "read", "hashed", "examined"}

Signatures ==
  [kind : {"catalog", "embedded", "unsigned", "unknown"}, signer : Signers \cup {"none"}]

Entry ==
  [signature : Signatures,
   version : Texts \cup {""}, company : Texts \cup {""}, size : Nat,
   hash : Contents, category : Purposes \cup {"other"},
   vulnerability : {"none", "file name", "SHA-256"}]

(* The variables keep their types.                                         *)
TypeOK ==
  /\ CorpusTypeOK
  /\ open \in BOOLEAN /\ owed \in BOOLEAN /\ repaint \in BOOLEAN
  /\ panel \in {"idle", "running", "done", "failed"}
  /\ shown \in {"idle", "running", "done", "failed"}
  /\ scans \in 0 .. MaxScans
  /\ content \in [Drivers -> Contents]
  /\ replaced \in 0 .. MaxReplaced
  /\ stage \in [Drivers -> Stages]
  /\ entry \in [Drivers -> Entry]
  /\ seen \in [Drivers -> SUBSET Contents]
  /\ unasked \subseteq Drivers

Vouched(b) == b # Unreadable /\ "valid" \in {File[b].catalog, File[b].embedded}

(* What the report says of a signature is true of a build the path held    *)
(* during the scan: a signer did sign one, and Unsigned means that one     *)
(* carries no signature.  If the file stayed the same and the catalogs     *)
(* could be asked, a vouched driver is reported signed: by the catalog     *)
(* most drivers depend on, not only by a signature of its own.             *)
HonestSignature(d) ==
  LET signature == entry[d].signature
  IN  /\ IsSigned(signature) =>
           \E b \in seen[d] : Vouched(b) /\ signature.signer = File[b].signer
      /\ signature.kind = "unsigned" =>
           \E b \in seen[d] \ {Unreadable} : File[b].embedded = "none"
      /\ \A b \in Contents :
           seen[d] = {b} /\ d \notin unasked => (IsSigned(signature) <=> Vouched(b))

SignatureIsHonest == panel = "done" => \A d \in Drivers : HonestSignature(d)

(* models.rs 171 and rules.rs 594: Unsigned is "verified as carrying no    *)
(* valid signature", and a file that could not be verified is evidence of  *)
(* nothing.  So a file that stayed the same and is vouched for is not      *)
(* called unsigned.                                                        *)
UnsignedIsVerified ==
  \A d \in Drivers, b \in Builds :
    seen[d] = {b} /\ entry[d].signature.kind = "unsigned" => ~Vouched(b)

(* A driver whose build is in the corpus the user had fetched when the     *)
(* process took its copy is reported as that exact build, whatever is      *)
(* fetched afterwards and although its name is known too, and is listed by *)
(* default unless Windows signed it.  The one way to lose a corpus is a    *)
(* file that was torn at that moment.  A driver that is reported as an     *)
(* exact build has a hash which that corpus lists.                         *)
FlaggedAsPromised ==
  panel = "done" =>
    /\ \A d \in Drivers, b \in Builds :
         ~known.torn /\ seen[d] = {b} /\ b \in known.told =>
           /\ entry[d].vulnerability = "SHA-256"
           /\ d \in Listed \/ File[b].signer \in OsSigners
    /\ \A d \in Drivers :
         entry[d].vulnerability = "SHA-256" => entry[d].hash \in known.told

(* Two drivers of a report that have the same hash get the same answer on  *)
(* it, even if an update ends between their turns.                         *)
OneCorpus ==
  \A d, e \in Drivers :
    /\ stage[d] = "examined" /\ stage[e] = "examined"
    /\ entry[d].hash = entry[e].hash
    => (entry[d].vulnerability = "SHA-256" <=> entry[e].vulnerability = "SHA-256")

(* A version, a company, a size and a hash in the report are each those of *)
(* a build the path held during the scan, version and company of the same; *)
(* a version or a company is missing only if that build has none in any    *)
(* block it declares.  What graphics drivers are called outweighs          *)
(* everything else their names suggest.                                    *)
TrueText(b, string, text) ==
  b # Unreadable =>
    IF text # ""
    THEN \E k \in Blocks : text = File[b][string][k]
    ELSE \A i \in DOMAIN File[b].declared : File[b][string][File[b].declared[i]] = ""

TrueTexts(d) ==
  \E b \in seen[d] :
    /\ b = Unreadable => entry[d].version = "" /\ entry[d].company = ""
    /\ TrueText(b, "version", entry[d].version)
    /\ TrueText(b, "company", entry[d].company)

FactsAreOfTheFile ==
  panel = "done" =>
    \A d \in Drivers :
      /\ entry[d].hash \in seen[d]
      /\ \E b \in seen[d] : entry[d].size = ImageSize(b)
      /\ TrueTexts(d)
      /\ "graphics" \in Words[d] => entry[d].category = "graphics"

(* A scan that was started ends up on the screen, as a report or as a      *)
(* message, without the user's touching anything, or the window is closed. *)
EveryScanIsShown ==
  panel = "running" ~> (shown \in {"done", "failed"} \/ ~open)
=============================================================================
