------------------------------- MODULE Bundle -------------------------------
(***************************************************************************)
(* The evidence bundle (`winsleuth collect`, bundle.rs): a zip archive     *)
(* written in place, one entry after the other, the texts redacted, while  *)
(* Windows may delete a dump, a dump may be kept from the reader and any   *)
(* write may fail.                                                         *)
(*                                                                         *)
(* A text is a sequence of words, each in one writing: as the environment  *)
(* has it ("exact"), in lower case, or in another case.  Words are the     *)
(* folder of the profiles ("home"), the user's name, the host's name and   *)
(* the rest; a name holds none of the characters that HTML escapes.        *)
(***************************************************************************)
EXTENDS Ordering, SequencesExt

CONSTANTS
  Messages,    \* what a report may have to say, as texts
  NameLength,  \* lengths of "user", "host" and "profile"
  CrashDumps,  \* the dump of each crash of the report, in its order;
               \* None for a crash without one
  FileName,    \* dump |-> the name of its entry: dumps/ and its file name
  Oversized,   \* dumps of more than MAX_DUMP_BYTES
  None

TextFiles == <<"README.txt", "report.txt", "report.html", "report.json",
               "drivers.csv", "timeline.csv">>

Word(w, form) == [word |-> w, form |-> form]
IsSaid(x) == x.form \in {"exact", "lower", "mixed"} /\ x = Word(x.word, x.form)

(* Dumps of two directories may have one file name; no text is below       *)
(* dumps/, and the profile path holds the user's name.                     *)
ASSUME BundleAssumption ==
  /\ \A m \in Messages : m \in Seq(ToSet(m)) /\ \A x \in ToSet(m) : IsSaid(x)
  /\ NameLength \in [{"user", "host", "profile"} -> Nat]
  /\ NameLength["profile"] > NameLength["user"]
  /\ CrashDumps \in Seq(ToSet(CrashDumps))
  /\ \A d \in ToSet(CrashDumps) \ {None} : FileName[d] \notin ToSet(TextFiles)
  /\ Oversized \subseteq ToSet(CrashDumps) \ {None}

VARIABLES
  message,      \* what the report has to say
  includeDumps, \* --include-dumps
  dumps,        \* dump files that exist
  archive,      \* the destination: its state and its entries
  building,     \* step of build()
  nextCrash,    \* crashes passed
  bundle,       \* entries of the BundleResult
  kept          \* history: dumps that existed all the time and were not
                \* kept from the reader

bundleVars == <<message, includeDumps, dumps, archive, building, nextCrash, bundle, kept>>

(* In JSON the backslash at the end of a folder is written twice.          *)
Escaped(text) == [i \in DOMAIN text |->
  IF text[i].word = "home" THEN Word("escaped home", text[i].form) ELSE text[i]]

Rendered(file) == CASE file = "README.txt" -> <<>>
                    [] file = "report.json" -> Escaped(message)
                    [] OTHER -> message

Renderings == {<<>>} \cup Messages \cup {Escaped(m) : m \in Messages}

-----------------------------------------------------------------------------
(* Redactor.                                                               *)

Needle == [user |-> <<"user">>, host |-> <<"host">>, profile |-> <<"home", "user">>]

Mark == [user |-> Word("[user]", "mark"), host |-> Word("[hostname]", "mark"),
         profile |-> Word("[profile]", "mark")]

(* A needle of two words leaves a place that holds nothing.                *)
Nothing == Word("", "mark")

Words == (UNION {ToSet(text) : text \in Renderings})
           \cup {Mark[r] : r \in DOMAIN Mark} \cup {Nothing}
Texts == Seq(Words)

Shortest == [user |-> 2, host |-> 2, profile |-> 3]

Pushed == <<"user", "host", "profile">>

(* Short names have no rule.                                               *)
Usable == {n \in ToSet(Pushed) : NameLength[n] > Shortest[n]}

(* Variant: the needles in ascending order.                                *)
LongestFirst_Ascending ==
  {p \in Pairs(DOMAIN Pushed) :
     \/ NameLength[Pushed[p[1]]] < NameLength[Pushed[p[2]]]
     \/ NameLength[Pushed[p[1]]] = NameLength[Pushed[p[2]]] /\ p[1] < p[2]}

(* Stable.                                                                 *)
LongestFirst ==
  {p \in Pairs(DOMAIN Pushed) :
     \/ NameLength[Pushed[p[1]]] > NameLength[Pushed[p[2]]]
     \/ NameLength[Pushed[p[1]]] = NameLength[Pushed[p[2]]] /\ p[1] < p[2]}

(* for_report().                                                           *)
Rules == Arranged(Pushed, {i \in DOMAIN Pushed : Pushed[i] \in Usable}, LongestFirst)

Written(needle, form) == [i \in DOMAIN needle |-> Word(needle[i], form)]

Occurs(text, part) ==
  {i \in DOMAIN text :
     \A j \in DOMAIN part : i + j - 1 \in DOMAIN text /\ text[i + j - 1] = part[j]}

(* A word replaced by its mark; what else the needle covered is Nothing.   *)
(* No needle overlaps itself, since its words differ.                      *)
Replace(part, mark) ==
  [text \in Texts |->
     LET found == Occurs(text, part)
         rest == UNION {i + 1 .. i + Len(part) - 1 : i \in found}
     IN  [i \in DOMAIN text |-> IF i \in found THEN mark
                               ELSE IF i \in rest THEN Nothing ELSE text[i]]]

(* A name as it is written, then in lower case.                            *)
ReplaceName(r) ==
  [text \in Texts |-> Replace(Written(Needle[r], "lower"), Mark[r])[
                        Replace(Written(Needle[r], "exact"), Mark[r])[text]]]

(* apply().                                                                *)
Redact ==
  [text \in Renderings |->
     LET out[k \in 0 .. Len(Rules)] ==
           IF k = 0 THEN text ELSE ReplaceName(Rules[k])[out[k - 1]]
     IN  out[Len(Rules)]]

-----------------------------------------------------------------------------
BundleInit ==
  /\ message \in Messages
  /\ includeDumps \in BOOLEAN
  /\ dumps = ToSet(CrashDumps) \ {None} /\ kept = dumps
  /\ archive \in [state : {"absent", "earlier"}, entries : {<<>>}]
  /\ building = "create" /\ nextCrash = 0
  /\ bundle = <<>>

reportVars == <<message, includeDumps>>

(* Windows Error Reporting keeps a limited number of dumps.                *)
DumpDeleted ==
  /\ building \notin {"written", "failed"}
  /\ \E d \in dumps : dumps' = dumps \ {d} /\ kept' = kept \ {d}
  /\ UNCHANGED <<reportVars, archive, building, nextCrash, bundle>>

(* What a failure leaves.  The writer is dropped on the way out, and then  *)
(* tries to finish the archive with the entries it has.                    *)
Dropped(entries) ==
  /\ building' = "failed"
  /\ archive' \in [state : {"unfinished", "finished"}, entries : entries]

(* The entry as far as it was written when a write failed.                 *)
CutOff(entry) == {[entry EXCEPT !.text = SubSeq(@, 1, n)] : n \in 0 .. Len(entry.text)}

(* start_file() takes a name once; a failure leaves the entry out or cut.  *)
Write(entry, then) ==
  \/ /\ entry.file \notin ToSet(bundle)
     /\ archive' = [archive EXCEPT !.entries = Append(@, entry)]
     /\ bundle' = Append(bundle, entry.file)
     /\ building' = then
  \/ /\ entry.file \notin ToSet(bundle)
     /\ Dropped({Append(archive.entries, e) : e \in CutOff(entry)})
     /\ UNCHANGED bundle
  \/ Dropped({archive.entries}) /\ UNCHANGED bundle

(* Whatever was at the destination is gone with File::create.              *)
CreateArchive ==
  /\ building = "create"
  /\ \/ building' = "texts" /\ archive' = [state |-> "unfinished", entries |-> <<>>]
     \/ building' = "failed" /\ UNCHANGED archive
  /\ UNCHANGED <<reportVars, dumps, kept, nextCrash, bundle>>

AddText ==
  /\ building = "texts"
  /\ LET file == TextFiles[Len(bundle) + 1] IN
       Write([file |-> file, text |-> Redact[Rendered(file)]],
             IF Len(bundle) + 1 < Len(TextFiles) THEN "texts" ELSE "dumps")
  /\ UNCHANGED <<reportVars, dumps, kept, nextCrash>>

(* metadata() and the limit; the file is read in a step of its own.        *)
Attachable(d) == d # None /\ d \in dumps /\ d \notin Oversized

(* Either question may also be denied, and the dump is passed over.        *)
PassOver(d) == /\ building' = "dumps" /\ kept' = kept \ {d}
               /\ UNCHANGED <<archive, bundle>>

CheckDump ==
  /\ building = "dumps" /\ includeDumps /\ nextCrash < Len(CrashDumps)
  /\ nextCrash' = nextCrash + 1
  /\ \/ /\ Attachable(CrashDumps[nextCrash']) /\ building' = "read"
        /\ UNCHANGED <<kept, archive, bundle>>
     \/ PassOver(CrashDumps[nextCrash'])
  /\ UNCHANGED <<reportVars, dumps>>

AddDump ==
  /\ building = "read"
  /\ LET d == CrashDumps[nextCrash] IN
       \/ /\ d \in dumps /\ Write([file |-> FileName[d], text |-> <<>>], "dumps")
          /\ UNCHANGED kept
       \/ PassOver(d)
  /\ UNCHANGED <<reportVars, dumps, nextCrash>>

FinishArchive ==
  /\ building = "dumps" /\ (includeDumps => nextCrash = Len(CrashDumps))
  /\ \/ building' = "written" /\ archive' = [archive EXCEPT !.state = "finished"]
     \/ Dropped({archive.entries})
  /\ UNCHANGED <<reportVars, dumps, kept, nextCrash, bundle>>

BuildBundle == CreateArchive \/ AddText \/ CheckDump \/ AddDump \/ FinishArchive

-----------------------------------------------------------------------------
(* No name a rule is for is left as it was or in lower case.               *)
NamesAreGone(text) ==
  \A r \in Usable, form \in {"exact", "lower"} : Occurs(text, Written(Needle[r], form)) = {}

(* In the files that do not escape it each profile path, in either         *)
(* writing, was replaced as a whole: the longest needle first.             *)
ProfilesAreMarked(file, text) ==
  file # "report.json" /\ "profile" \in Usable =>
    Occurs(text, <<Mark["profile"]>>) =
    UNION {Occurs(Rendered(file), Written(Needle["profile"], form)) : form \in {"exact", "lower"}}

(* The last text of an archive that failed may be cut.                     *)
NamesAreReplaced == \A i \in DOMAIN archive.entries : i <= Len(TextFiles) =>
  LET entry == archive.entries[i] IN
  /\ NamesAreGone(entry.text)
  /\ building # "failed" \/ i < Len(archive.entries) => ProfilesAreMarked(entry.file, entry.text)

(* The six texts in their order, then dumps of crashes that are not too    *)
(* large and were asked for, and no name twice.                            *)
Attachments == {FileName[d] : d \in ToSet(CrashDumps) \ (Oversized \cup {None})}

FilesAreInOrder == \A i \in DOMAIN archive.entries :
  LET file == archive.entries[i].file IN
  /\ IF i <= Len(TextFiles) THEN file = TextFiles[i] ELSE includeDumps /\ file \in Attachments
  /\ \A j \in DOMAIN archive.entries : archive.entries[j].file = file => i = j

(* The entries returned are those of the archive: every text and, when     *)
(* asked for, every dump of a crash that was there all the time, could be  *)
(* read and is not too large.                                              *)
EntriesAreTrue ==
  /\ bundle = [i \in DOMAIN archive.entries |-> archive.entries[i].file]
  /\ Len(bundle) >= Len(TextFiles)
  /\ includeDumps => {FileName[d] : d \in kept \ Oversized} \subseteq ToSet(bundle)

(* "Bundle written" is said of an archive that opens and holds the entries *)
(* returned.  One that failed half-way may open as well, since the writer  *)
(* finishes it when it is dropped: then it is a start of the whole one,    *)
(* and however far it came, its texts are redacted (bundle.rs 29-120 and   *)
(* 243-257).                                                               *)
BundleIsWhole ==
  /\ FilesAreInOrder
  /\ NamesAreReplaced
  /\ building = "written" => archive.state = "finished" /\ EntriesAreTrue
=============================================================================
