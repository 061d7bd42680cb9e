--------------------------- MODULE DesktopProofs ---------------------------
(***************************************************************************)
(* Machine-checked proofs about the examination of driver files and the    *)
(* corpus, for any drivers, builds, feeds, version resources and catalogs, *)
(* and any number of scans, updates and replacements.                      *)
(***************************************************************************)
EXTENDS Desktop, WellFoundedInduction, TLAPS

-----------------------------------------------------------------------------
(* Operators.                                                              *)

(* A set of indices that is not empty has a least, and Min is it.          *)
LEMMA LeastIndex ==
  ASSUME NEW n \in Nat, NEW I \in SUBSET (1 .. n), I # {}
  PROVE  Min(I) \in I /\ Min(I) \in 1 .. n /\ \A i \in I : Min(I) <= i
<1>1. I \in SUBSET Nat
  OBVIOUS
<1>2. PICK m \in I : \A i \in I : <<i, m>> \notin OpToRel(<, Nat)
  BY <1>1, WFMin, NatLessThanWellFounded, Zenon
<1>3. \A i \in I : m <= i
  <2> SUFFICES ASSUME NEW i \in I PROVE m <= i
    OBVIOUS
  <2>1. m \in Nat /\ i \in Nat
    BY <1>1, <1>2
  <2>2. ~(i < m)
    BY <1>2, <2>1, Zenon DEF OpToRel
  <2>3. QED
    BY <2>1, <2>2
<1>4. Min(I) \in I /\ \A i \in I : Min(I) <= i
  BY <1>2, <1>3 DEF Min
<1>5. QED
  BY <1>4

LEMMA FileIsDescribed ==
  ASSUME NEW b \in Contents, b # Unreadable
  PROVE  /\ b # Missing
         /\ File[b].catalog \in {"none", "valid", "invalid"}
         /\ File[b].embedded \in {"none", "valid", "invalid"}
         /\ File[b].signer \in Signers
         /\ File[b].declared \in Seq(Blocks)
         /\ File[b].version \in [Blocks -> Texts]
         /\ File[b].company \in [Blocks -> Texts]
         /\ File[b].size \in Nat
BY FileAssumption, DesktopAssumption

(* The blocks tried are the declared ones, then the fallback.              *)
LEMMA TriedAreBlocks ==
  ASSUME NEW b \in Contents, b # Unreadable
  PROVE  /\ Tried(b) \in Seq(Blocks)
         /\ \A i \in DOMAIN File[b].declared :
              i \in 1 .. Len(Tried(b)) /\ Tried(b)[i] = File[b].declared[i]
<1>1. File[b].declared \in Seq(Blocks) /\ Fallback \in Seq(Blocks)
  BY FileIsDescribed, FileAssumption
<1>2. QED
  BY <1>1 DEF Tried

(* A string is read from a block that has it, and missed only if none of   *)
(* the declared blocks has it.                                             *)
LEMMA SaidIsThere ==
  ASSUME NEW b \in Contents, b # Unreadable, NEW string \in {"version", "company"}
  PROVE  \/ /\ Said(b, string) = ""
            /\ \A i \in DOMAIN File[b].declared : File[b][string][File[b].declared[i]] = ""
         \/ \E k \in Blocks : Said(b, string) = File[b][string][k] /\ Said(b, string) # ""
<1> DEFINE I == {i \in 1 .. Len(Tried(b)) : File[b][string][Tried(b)[i]] # ""}
<1>1. Said(b, string) = IF (IF I # {} THEN Min(I) ELSE 0) = 0 THEN ""
                        ELSE File[b][string][Tried(b)[IF I # {} THEN Min(I) ELSE 0]]
  BY DEF Said, SelectInSeq
<1>2. CASE I = {}
  BY <1>1, <1>2, TriedAreBlocks
<1>3. CASE I # {}
  <2> HIDE DEF I
  <2>a. Tried(b) \in Seq(Blocks)
    BY TriedAreBlocks
  <2>b. Len(Tried(b)) \in Nat
    BY <2>a
  <2>c. I \in SUBSET (1 .. Len(Tried(b)))
    BY DEF I
  <2>1. Min(I) \in I /\ Min(I) \in 1 .. Len(Tried(b))
    BY <1>3, <2>b, <2>c, LeastIndex
  <2>2. Said(b, string) = File[b][string][Tried(b)[Min(I)]]
    <3> DEFINE m == Min(I)
    <3>1. m # 0
      BY <2>1, <2>b
    <3> HIDE DEF m
    <3>2. Said(b, string) = IF m = 0 THEN "" ELSE File[b][string][Tried(b)[m]]
      BY <1>1, <1>3 DEF m
    <3>3. QED
      BY <3>1, <3>2 DEF m
  <2> DEFINE k == Tried(b)[Min(I)]
  <2>3. k \in Blocks
    BY <2>1, TriedAreBlocks
  <2>4. File[b][string][k] # ""
    BY <2>1 DEF I
  <2> HIDE DEF k
  <2>5. Said(b, string) = File[b][string][k]
    BY <2>2 DEF k
  <2>6. QED
    BY <2>3, <2>4, <2>5
<1>4. QED
  BY <1>2, <1>3

LEMMA SaidIsText ==
  ASSUME NEW b \in Contents
  PROVE  /\ Version(b) \in Texts \cup {""}
         /\ Company(b) \in Texts \cup {""}
         /\ ImageSize(b) \in Nat
<1>1. CASE b = Unreadable
  BY <1>1, DesktopAssumption DEF Version, Company, ImageSize
<1>2. CASE b # Unreadable
  <2>1. File[b].version \in [Blocks -> Texts] /\ File[b].company \in [Blocks -> Texts]
        /\ File[b].size \in Nat
    BY <1>2, FileIsDescribed
  <2>2. Said(b, "version") \in Texts \cup {""}
    BY <1>2, <2>1, SaidIsThere
  <2>3. Said(b, "company") \in Texts \cup {""}
    BY <1>2, <2>1, SaidIsThere
  <2>4. QED
    BY <1>2, <2>1, <2>2, <2>3, DesktopAssumption DEF Version, Company, ImageSize
<1>3. QED
  BY <1>1, <1>2

(* The first category of the list wins.                                    *)
LEMMA CategoriseIsFirst ==
  ASSUME NEW words
  PROVE  /\ Categorise(words) \in Purposes \cup {"other"}
         /\ "graphics" \in words => Categorise(words) = "graphics"
<1> DEFINE I == {i \in 1 .. Len(Categories) : Categories[i] \in words}
<1>1. Categorise(words) = IF (IF I # {} THEN Min(I) ELSE 0) = 0 THEN "other"
                          ELSE Categories[IF I # {} THEN Min(I) ELSE 0]
  BY DEF Categorise, SelectInSeq
<1>0. Categories \in Seq(Purposes) /\ Len(Categories) > 0 /\ Categories[1] = "graphics"
  BY FileAssumption
<1>3. "graphics" \in words => 1 \in I
  BY <1>0
<1> HIDE DEF I
<1>4. I \subseteq 1 .. Len(Categories) /\ Len(Categories) \in Nat
  BY <1>0 DEF I
<1>2. I # {} => /\ Min(I) \in I /\ Min(I) \in 1 .. Len(Categories)
                /\ \A i \in I : Min(I) <= i
  BY <1>4, LeastIndex
<1>5. Categorise(words) \in Purposes \cup {"other"}
  BY <1>0, <1>1, <1>2, <1>4
<1>6. ASSUME 1 \in I PROVE Min(I) = 1
  <2>1. I # {}
    BY <1>6
  <2>2. Min(I) \in 1 .. Len(Categories) /\ Min(I) <= 1
    BY <1>2, <1>6, <2>1
  <2>3. QED
    BY <2>2, <1>4
<1>7. QED
  BY <1>0, <1>1, <1>3, <1>5, <1>6

-----------------------------------------------------------------------------
(* Types.                                                                  *)

USE DEF corpusVars, cacheVars, panelVars, fileVars, entryVars, historyVars

LEMMA SignatureTypes ==
  /\ Unknown \in Signatures
  /\ \A b \in Contents :
       /\ Embedded(b) \in Signatures
       /\ b # Unreadable => Signed("catalog", b) \in Signatures
<1>1. Unknown \in Signatures /\ Unsigned \in Signatures
  BY DEF Unknown, Unsigned, Signatures
<1>2. ASSUME NEW b \in Contents, b # Unreadable, NEW kind \in {"catalog", "embedded"}
      PROVE  Signed(kind, b) \in Signatures
  BY <1>2, FileIsDescribed DEF Signed, Signatures
<1>3. QED
  BY <1>1, <1>2, DesktopAssumption DEF Embedded

LEMMA BlankIsEntry == Blank \in Entry
BY SignatureTypes, DesktopAssumption DEF Blank, Entry

LEMMA TypeInit == Init => TypeOK
<1> SUFFICES ASSUME Init PROVE TypeOK
  OBVIOUS
<1>1. CorpusTypeOK
  BY CorpusAssumption DEF Init, CorpusInit, CorpusTypeOK, Unset, Nothing
<1>2. /\ stage \in [Drivers -> Stages] /\ entry \in [Drivers -> Entry]
      /\ seen \in [Drivers -> SUBSET Contents] /\ content \in [Drivers -> Contents]
  BY BlankIsEntry, DesktopAssumption DEF Init, Stages
<1>3. scans \in 0 .. MaxScans /\ replaced \in 0 .. MaxReplaced
  BY DesktopAssumption DEF Init
<1>4. QED
  BY <1>1, <1>2, <1>3 DEF Init, TypeOK

LEMMA CorpusTypeStep ==
  ASSUME CorpusTypeOK, Update \/ UNCHANGED <<corpusVars, cacheVars>>
  PROVE  CorpusTypeOK'
<1> USE DEF CorpusTypeOK
<1>1. CASE Fetch
  BY <1>1, CorpusAssumption DEF Fetch, ParseCorpus
<1>2. CASE Truncate
  BY <1>2 DEF Truncate
<1>3. CASE Fill
  BY <1>3 DEF Fill
<1>4. CASE UpdateCut
  BY <1>4 DEF UpdateCut
<1>5. QED
  BY <1>1, <1>2, <1>3, <1>4 DEF Update

(* A lookup leaves a whole copy behind, and the corpus alone.              *)
LEMMA LookupTypes ==
  ASSUME CorpusTypeOK, NEW hash, Lookup(hash), UNCHANGED corpusVars
  PROVE  CorpusTypeOK'
<1>1. OnDisk \in SUBSET Builds /\ Known \in [told : SUBSET Builds, torn : BOOLEAN]
  BY DEF CorpusTypeOK, OnDisk, Known
<1>2. CASE UNCHANGED cacheVars
  BY <1>2 DEF CorpusTypeOK
<1>3. CASE cache' = [filled |-> TRUE, hashes |-> OnDisk] /\ known' = Known
  BY <1>1, <1>3 DEF CorpusTypeOK
<1>4. QED
  BY <1>2, <1>3 DEF Lookup, FillCache

LEMMA CountersStayBounded ==
  ASSUME TypeOK
  PROVE  /\ StartScan => scans' \in 0 .. MaxScans
         /\ \A d \in Drivers : ReplaceFile(d) => replaced' \in 0 .. MaxReplaced
<1>1. /\ scans \in Nat /\ replaced \in Nat
      /\ MaxScans \in Nat /\ MaxReplaced \in Nat
  BY DesktopAssumption DEF TypeOK
<1>2. StartScan => scans < MaxScans /\ scans' = scans + 1
  BY DEF StartScan
<1>3. \A d \in Drivers : ReplaceFile(d) => replaced < MaxReplaced /\ replaced' = replaced + 1
  BY DEF ReplaceFile
<1>4. QED
  BY <1>1, <1>2, <1>3

(* An entry keeps its type whichever of its fields a step fills.           *)
LEMMA EntryFields ==
  ASSUME NEW e \in Entry
  PROVE  /\ \A x \in Signatures : [e EXCEPT !.signature = x] \in Entry
         /\ \A v \in Texts \cup {""}, c \in Texts \cup {""}, n \in Nat :
              [e EXCEPT !.version = v, !.company = c, !.size = n] \in Entry
         /\ \A h \in Contents : [e EXCEPT !.hash = h] \in Entry
         /\ \A c \in Purposes \cup {"other"}, v \in {"none", "file name", "SHA-256"} :
              [e EXCEPT !.category = c, !.vulnerability = v] \in Entry
<1> DEFINE PossibleTexts == Texts \cup {""}
           PossibleMatches == {"none", "file name", "SHA-256"}
           PossibleCategories == Purposes \cup {"other"}
<1>1. Entry = [signature : Signatures, version : PossibleTexts, company : PossibleTexts,
               size : Nat, hash : Contents, category : PossibleCategories,
               vulnerability : PossibleMatches]
  BY DEF Entry
<1> HIDE DEF PossibleTexts, PossibleMatches, PossibleCategories
<1>2. \A x \in Signatures : [e EXCEPT !.signature = x] \in Entry
  BY <1>1
<1>3. \A v \in PossibleTexts, c \in PossibleTexts, n \in Nat :
        [e EXCEPT !.version = v, !.company = c, !.size = n] \in Entry
  BY <1>1
<1>4. \A h \in Contents : [e EXCEPT !.hash = h] \in Entry
  BY <1>1
<1>5. \A c \in PossibleCategories, v \in PossibleMatches :
        [e EXCEPT !.category = c, !.vulnerability = v] \in Entry
  BY <1>1
<1>6. QED
  BY <1>2, <1>3, <1>4, <1>5 DEF PossibleTexts, PossibleMatches, PossibleCategories

LEMMA EntryStep ==
  ASSUME entry \in [Drivers -> Entry], NEW d \in Drivers, NEW e \in Entry,
         entry' = [entry EXCEPT ![d] = e]
  PROVE  entry' \in [Drivers -> Entry]
OBVIOUS

LEMMA TypeStep == TypeOK /\ [Next]_vars => TypeOK'
<1> SUFFICES ASSUME TypeOK, [Next]_vars PROVE TypeOK'
  OBVIOUS
<1> USE DEF TypeOK, Stages
<1>0. /\ [d \in Drivers |-> "waiting"] \in [Drivers -> Stages]
      /\ [d \in Drivers |-> Blank] \in [Drivers -> Entry]
      /\ [d \in Drivers |-> {}] \in [Drivers -> SUBSET Contents]
      /\ [d \in Drivers |-> {content[d]}] \in [Drivers -> SUBSET Contents]
  BY BlankIsEntry
<1>1. CASE Launch \/ Draw
  BY <1>1 DEF Launch, Draw, CorpusTypeOK
<1>2. CASE Close
  <2>1. CorpusTypeOK'
    BY <1>2 DEF Close, CorpusTypeOK, Unset, Nothing
  <2>2. QED
    BY <1>0, <1>2, <2>1 DEF Close
<1>9. CASE StartScan
  <2>1. CorpusTypeOK'
    BY <1>9 DEF StartScan, CorpusTypeOK
  <2>2. scans' \in 0 .. MaxScans
    BY <1>9, CountersStayBounded
  <2>3. QED
    BY <1>0, <1>9, <2>1, <2>2 DEF StartScan
<1>3. ASSUME NEW d \in Drivers, Enrich(d) PROVE TypeOK'
  <2> USE DEF Examine
  <2> DEFINE e == entry[d]
  <2>0. e \in Entry /\ content[d] \in Contents /\ entry \in [Drivers -> Entry]
    OBVIOUS
  <2>1. CASE AskCatalog(d)
    <3>1. \/ entry' = entry
          \/ \E x \in {Unknown, Signed("catalog", content[d])} :
               /\ x = Unknown \/ content[d] # Unreadable
               /\ entry' = [entry EXCEPT ![d] = [e EXCEPT !.signature = x]]
      BY <2>1 DEF AskCatalog
    <3>2. entry' \in [Drivers -> Entry]
      <4> HIDE DEF TypeOK, e
      <4>1. CASE entry' = entry
        BY <2>0, <4>1
      <4>2. CASE entry' # entry
        <5>1. PICK x \in Signatures : entry' = [entry EXCEPT ![d] = [e EXCEPT !.signature = x]]
          BY <2>0, <3>1, <4>2, SignatureTypes
        <5>2. [e EXCEPT !.signature = x] \in Entry
          BY <2>0, EntryFields
        <5>3. QED
          BY <2>0, <5>1, <5>2, EntryStep
      <4>3. QED
        BY <4>1, <4>2
    <3>3. unasked' \in SUBSET Drivers /\ stage' \in [Drivers -> Stages]
      <4>1. \/ stage' = [stage EXCEPT ![d] = "verified"]
            \/ stage' = [stage EXCEPT ![d] = "not in a catalog"]
        BY <2>1 DEF AskCatalog
      <4>2. unasked' \in {unasked, unasked \cup {d}}
        BY <2>1 DEF AskCatalog
      <4>3. QED
        BY <4>1, <4>2
    <3>4. /\ UNCHANGED <<corpusVars, cacheVars, panelVars, fileVars>>
          /\ seen' \in [Drivers -> SUBSET Contents]
      BY <2>1 DEF AskCatalog
    <3>5. CorpusTypeOK'
      BY <3>4 DEF CorpusTypeOK
    <3>6. QED
      BY <3>2, <3>3, <3>4, <3>5
  <2>2. CASE AskFile(d)
    <3>1. [e EXCEPT !.signature = Embedded(content[d])] \in Entry
      <4> HIDE DEF TypeOK, e
      <4> QED BY <2>0, EntryFields, SignatureTypes
    <3>2. entry' = [entry EXCEPT ![d] = [e EXCEPT !.signature = Embedded(content[d])]]
      BY <2>2 DEF AskFile
    <3>3. entry' \in [Drivers -> Entry]
      <4> HIDE DEF TypeOK, e
      <4> QED BY <2>0, <3>1, <3>2, EntryStep
    <3>4. CorpusTypeOK'
      BY <2>2 DEF AskFile, CorpusTypeOK
    <3>5. QED
      BY <2>2, <3>3, <3>4 DEF AskFile
  <2>3. CASE ReadHeader(d)
    <3> DEFINE read == [e EXCEPT !.version = Version(content[d]), !.company = Company(content[d]),
                                 !.size = ImageSize(content[d])]
    <3>1. read \in Entry
      <4>1. /\ Version(content[d]) \in Texts \cup {""}
            /\ Company(content[d]) \in Texts \cup {""}
            /\ ImageSize(content[d]) \in Nat
        BY SaidIsText
      <4> HIDE DEF TypeOK, e
      <4>2. QED
        BY <2>0, <4>1, EntryFields
    <3>2. entry' = [entry EXCEPT ![d] = read]
      BY <2>3 DEF ReadHeader
    <3>3. entry' \in [Drivers -> Entry]
      <4> HIDE DEF TypeOK, read
      <4> QED BY <2>0, <3>1, <3>2, EntryStep
    <3>4. CorpusTypeOK'
      BY <2>3 DEF ReadHeader, CorpusTypeOK
    <3>5. QED
      BY <2>3, <3>3, <3>4 DEF ReadHeader
  <2>4. CASE HashFile(d)
    <3>1. [e EXCEPT !.hash = content[d]] \in Entry
      <4> HIDE DEF TypeOK, e
      <4> QED BY <2>0, EntryFields
    <3>2. entry' = [entry EXCEPT ![d] = [e EXCEPT !.hash = content[d]]]
      BY <2>4 DEF HashFile
    <3>3. entry' \in [Drivers -> Entry]
      <4> HIDE DEF TypeOK, e
      <4> QED BY <2>0, <3>1, <3>2, EntryStep
    <3>4. CorpusTypeOK'
      BY <2>4 DEF HashFile, CorpusTypeOK
    <3>5. QED
      BY <2>4, <3>3, <3>4 DEF HashFile
  <2>5. CASE Finish(d)
    <3> DEFINE match == Match(d, entry[d].hash, cache'.hashes)
               words == Words[d] \cup CompanyWords[entry[d].company]
               finished == [e EXCEPT !.category = Categorise(words), !.vulnerability = match]
    <3>1. CorpusTypeOK'
      BY <2>5, LookupTypes DEF Finish
    <3>2. finished \in Entry
      <4>1. match \in {"none", "file name", "SHA-256"}
        BY DEF Match
      <4>2. Categorise(words) \in Purposes \cup {"other"}
        BY CategoriseIsFirst
      <4> HIDE DEF TypeOK, e, match, words
      <4>3. QED
        BY <2>0, <4>1, <4>2, EntryFields
    <3>3. entry' = [entry EXCEPT ![d] = finished]
      BY <2>5 DEF Finish
    <3>4. entry' \in [Drivers -> Entry]
      <4> HIDE DEF TypeOK, finished
      <4> QED BY <2>0, <3>2, <3>3, EntryStep
    <3>5. QED
      BY <2>5, <3>1, <3>4 DEF Finish
  <2>6. QED
    BY <1>3, <2>1, <2>2, <2>3, <2>4, <2>5 DEF Enrich
<1>4. CASE ScanPanics \/ ScanEnds \/ RequestRepaint
  BY <1>4 DEF ScanPanics, ScanEnds, RequestRepaint, CorpusTypeOK
<1>5. ASSUME NEW d \in Drivers, ReplaceFile(d) PROVE TypeOK'
  <2>1. PICK b \in Contents :
          /\ content' = [content EXCEPT ![d] = b]
          /\ seen' = [seen EXCEPT ![d] = IF panel = "running" THEN @ \cup {b} ELSE @]
    BY <1>5 DEF ReplaceFile
  <2>2. content' \in [Drivers -> Contents] /\ seen' \in [Drivers -> SUBSET Contents]
    BY <2>1
  <2>3. CorpusTypeOK' /\ replaced' \in 0 .. MaxReplaced
    BY <1>5, CountersStayBounded DEF ReplaceFile, CorpusTypeOK
  <2>4. QED
    BY <1>5, <2>2, <2>3 DEF ReplaceFile
<1>6. CASE UpdateBlocklist
  BY <1>6, CorpusTypeStep DEF UpdateBlocklist
<1>7. CASE UNCHANGED vars
  BY <1>7, CorpusTypeStep DEF vars
<1>8. QED
  BY <1>1, <1>2, <1>3, <1>4, <1>5, <1>6, <1>7, <1>9 DEF Next, Window, ScanThread, Around

(* The variables keep their types.                                         *)
THEOREM TypeCorrect == Spec => []TypeOK
BY TypeInit, TypeStep, PTL DEF Spec

-----------------------------------------------------------------------------
(* The invariant.                                                          *)

Verified == {"verified", "read", "hashed", "examined"}
Read     == {"read", "hashed", "examined"}
Hashed   == {"hashed", "examined"}

(* A driver that is not in a catalog: a build that was there is not, or    *)
(* its catalog was not asked.                                              *)
Asked(d) ==
  stage[d] = "not in a catalog" =>
    \E b \in seen[d] : b # Unreadable /\ (d \in unasked \/ File[b].catalog # "valid")

Matched(d) ==
  stage[d] = "examined" =>
    /\ entry[d].hash # Unreadable => cache.filled
    /\ entry[d].vulnerability = Match(d, entry[d].hash, cache.hashes)
    /\ "graphics" \in Words[d] => entry[d].category = "graphics"

Facts(d) ==
  /\ stage[d] \in Verified => HonestSignature(d)
  /\ stage[d] \in Read => TrueTexts(d) /\ \E b \in seen[d] : entry[d].size = ImageSize(b)
  /\ stage[d] \in Hashed => entry[d].hash \in seen[d]

Examined(d) == Asked(d) /\ Facts(d) /\ Matched(d)

IInv ==
  /\ CorpusInv
  /\ panel = "running" => \A d \in Drivers : content[d] \in seen[d]
  /\ panel = "done" => \A d \in Drivers : stage[d] = "examined"
  /\ \A d \in Drivers : Examined(d)

LEMMA IInvInit == Init => IInv
<1> SUFFICES ASSUME Init PROVE IInv
  OBVIOUS
<1>1. CorpusInv
  BY DEF Init, CorpusInit, CorpusInv, Unset, Nothing
<1>2. \A d \in Drivers : stage[d] = "waiting"
  BY DEF Init
<1>3. QED
  BY <1>1, <1>2 DEF Init, IInv, Examined, Asked, Facts, Matched, Verified, Read, Hashed

(* A copy taken of a file that is not torn is what was stored.             *)
LEMMA CorpusInvStep ==
  ASSUME CorpusTypeOK, CorpusInv,
         \/ Update
         \/ UNCHANGED corpusVars /\ (\E hash \in Contents : Lookup(hash))
         \/ UNCHANGED corpusVars /\ cache' = Unset
         \/ UNCHANGED <<corpusVars, cacheVars>>
  PROVE  CorpusInv'
<1> USE DEF CorpusInv
<1>1. CASE Update
  BY <1>1 DEF Update, Fetch, Truncate, Fill, UpdateCut, CorpusTypeOK
<1>2. CASE UNCHANGED corpusVars /\ cache' = [filled |-> TRUE, hashes |-> OnDisk] /\ known' = Known
  BY <1>2 DEF OnDisk, Known, CorpusTypeOK
<1>3. CASE UNCHANGED corpusVars /\ (\E hash \in Contents : Lookup(hash))
  BY <1>2, <1>3 DEF Lookup, FillCache
<1>4. CASE UNCHANGED corpusVars /\ cache' = Unset
  BY <1>4 DEF Unset
<1>5. CASE UNCHANGED <<corpusVars, cacheVars>>
  BY <1>5
<1>6. QED
  BY <1>1, <1>3, <1>4, <1>5

-----------------------------------------------------------------------------
(* What a step can do to what is known of a driver.                        *)

LEMMA Fresh ==
  ASSUME NEW d \in Drivers, stage'[d] = "waiting"
  PROVE  Examined(d)'
BY DEF Examined, Asked, Facts, Matched, Verified, Read, Hashed

(* It leaves the driver alone, and a copy of the corpus that was taken.    *)
LEMMA Kept ==
  ASSUME CorpusTypeOK, CorpusTypeOK', NEW d \in Drivers, Examined(d),
         stage'[d] = stage[d], entry'[d] = entry[d], seen'[d] = seen[d],
         d \in unasked' <=> d \in unasked,
         cache.filled => cache' = cache
  PROVE  Examined(d)'
<1>0. HonestSignature(d)' <=> HonestSignature(d)
  BY DEF HonestSignature
<1>a. TrueTexts(d)' <=> TrueTexts(d)
  BY DEF TrueTexts
<1>b. Asked(d)'
  BY DEF Examined, Asked
<1>c. (\E b \in seen[d] : entry[d].size = ImageSize(b))' <=>
        \E b \in seen[d] : entry[d].size = ImageSize(b)
  OBVIOUS
<1>1. Facts(d)'
  BY <1>0, <1>a, <1>c DEF Examined, Facts
<1>2. entry[d].hash = Unreadable =>
        Match(d, entry[d].hash, cache.hashes) = Match(d, entry[d].hash, cache'.hashes)
  BY CorpusAssumption DEF CorpusTypeOK, Match
<1>3. Matched(d)'
  BY <1>2 DEF Examined, Matched
<1>4. QED
  BY <1>b, <1>1, <1>3 DEF Examined

(* It puts another build where there was one already: nothing was constant *)
(* then.                                                                   *)
LEMMA Grown ==
  ASSUME NEW d \in Drivers, Examined(d), NEW b \in Contents,
         content[d] \in seen[d], b # content[d],
         seen'[d] = seen[d] \cup {b}, stage'[d] = stage[d],
         UNCHANGED <<cache, entry, unasked>>
  PROVE  Examined(d)'
<1>1. \A c : seen'[d] # {c}
  OBVIOUS
<1>2. Asked(d)' /\ Matched(d)'
  BY DEF Examined, Asked, Matched
<1>3. HonestSignature(d) => HonestSignature(d)'
  BY <1>1 DEF HonestSignature
<1>4. TrueTexts(d) => TrueTexts(d)'
  BY DEF TrueTexts
<1>5. QED
  BY <1>2, <1>3, <1>4 DEF Examined, Facts

-----------------------------------------------------------------------------
(* The examination of one driver.                                          *)

LEMMA AskCatalogStep ==
  ASSUME TypeOK, IInv, NEW d \in Drivers, AskCatalog(d)
  PROVE  Examined(d)'
<1> DEFINE b == content[d]
<1>1. b \in Contents /\ b \in seen[d] /\ seen' = seen
  BY DEF TypeOK, IInv, AskCatalog, Examine
<1>2. PICK context \in BOOLEAN :
        /\ \/ /\ b = Unreadable
              /\ entry' = [entry EXCEPT ![d].signature = Unknown]
              /\ Examine(d, "waiting", "verified")
           \/ /\ b # Unreadable /\ CatalogVouches(b, context)
              /\ entry' = [entry EXCEPT ![d].signature = Signed("catalog", b)]
              /\ Examine(d, "waiting", "verified")
           \/ /\ b # Unreadable /\ ~CatalogVouches(b, context)
              /\ entry' = entry
              /\ Examine(d, "waiting", "not in a catalog")
        /\ unasked' = IF b # Unreadable /\ ~context /\ File[b].catalog = "valid"
                       THEN unasked \cup {d} ELSE unasked
  BY DEF AskCatalog
<1>3. Examine(d, "waiting", "verified") \/ Examine(d, "waiting", "not in a catalog")
  BY <1>2
<1>4. stage'[d] \in {"verified", "not in a catalog"}
  BY <1>3 DEF Examine, TypeOK
<1>5. Matched(d)' /\ (stage'[d] \notin Read /\ stage'[d] \notin Hashed)
  BY <1>4 DEF Matched, Read, Hashed
<1>6. CASE b = Unreadable \/ CatalogVouches(b, context)
  <2>1. stage'[d] = "verified"
    BY <1>2, <1>6 DEF Examine, TypeOK
  <2>2. \/ b = Unreadable /\ entry'[d].signature = Unknown
        \/ /\ b # Unreadable /\ CatalogVouches(b, context)
           /\ entry'[d].signature = Signed("catalog", b)
    <3>1. ASSUME NEW x, entry' = [entry EXCEPT ![d].signature = x]
          PROVE  entry'[d].signature = x
      <4>1. entry \in [Drivers -> Entry]
        BY DEF TypeOK
      <4>2. entry'[d] = [entry[d] EXCEPT !.signature = x]
        BY <3>1, <4>1
      <4>3. QED
        BY <4>1, <4>2 DEF Entry
    <3>2. QED
      BY <1>2, <1>6, <3>1 DEF CatalogVouches
  <2>3. HonestSignature(d)'
    BY <1>1, <2>2
    DEF HonestSignature, Unknown, Signed, IsSigned, Vouched, CatalogVouches
  <2>4. QED
    BY <1>5, <2>1, <2>3 DEF Examined, Asked, Facts
<1>7. CASE b # Unreadable /\ ~CatalogVouches(b, context)
  <2>1. stage'[d] = "not in a catalog"
    BY <1>2, <1>7 DEF Examine, TypeOK
  <2>2. d \in unasked' \/ File[b].catalog # "valid"
    BY <1>2, <1>7 DEF CatalogVouches
  <2>3. QED
    BY <1>1, <1>5, <1>7, <2>1, <2>2 DEF Examined, Asked, Facts, Verified
<1>8. QED
  BY <1>6, <1>7

LEMMA AskFileStep ==
  ASSUME TypeOK, IInv, NEW d \in Drivers, AskFile(d)
  PROVE  Examined(d)'
<1> DEFINE b == content[d]
<1>1. b \in Contents /\ b \in seen[d] /\ seen' = seen /\ unasked' = unasked
  BY DEF TypeOK, IInv, AskFile, Examine
<1>2. entry'[d].signature = Embedded(b) /\ stage'[d] = "verified"
  BY DEF AskFile, Examine, TypeOK, Entry
<1>3. PICK c \in seen[d] : c # Unreadable /\ (d \in unasked \/ File[c].catalog # "valid")
  BY DEF IInv, Examined, Asked, AskFile, Examine
<1>4. HonestSignature(d)'
  <2>1. CASE b = Unreadable
    BY <1>1, <1>2, <1>3, <2>1, DesktopAssumption
    DEF HonestSignature, Embedded, Unknown, IsSigned, Vouched
  <2>2. CASE b # Unreadable
    BY <1>1, <1>2, <1>3, <2>2, DesktopAssumption
    DEF HonestSignature, Embedded, Unknown, Unsigned, Signed, IsSigned, Vouched
  <2>3. QED
    BY <2>1, <2>2
<1>5. QED
  BY <1>2, <1>4 DEF Examined, Asked, Facts, Matched, Verified, Read, Hashed

LEMMA ReadHeaderStep ==
  ASSUME TypeOK, IInv, NEW d \in Drivers, ReadHeader(d)
  PROVE  Examined(d)'
<1> DEFINE b == content[d]
<1>1. /\ b \in Contents /\ b \in seen[d] /\ seen' = seen /\ unasked' = unasked
      /\ stage[d] = "verified" /\ stage'[d] = "read"
  BY DEF TypeOK, IInv, ReadHeader, Examine
<1>2. /\ entry'[d].signature = entry[d].signature
      /\ entry'[d].version = Version(b) /\ entry'[d].size = ImageSize(b)
      /\ entry'[d].company = Company(b)
  BY DEF ReadHeader, TypeOK, Entry
<1>3. HonestSignature(d)'
  BY <1>1, <1>2 DEF IInv, Examined, Facts, Verified, HonestSignature
<1>4. TrueTexts(d)'
  <2>1. b = Unreadable => Version(b) = "" /\ Company(b) = ""
    BY DesktopAssumption DEF Version, Company
  <2>2. ASSUME b # Unreadable, NEW string \in {"version", "company"}
        PROVE  TrueText(b, string, Said(b, string))
    BY <1>1, <2>2, SaidIsThere DEF TrueText
  <2>3. TrueText(b, "version", Version(b)) /\ TrueText(b, "company", Company(b))
    <3>1. CASE b = Unreadable
      BY <3>1 DEF TrueText
    <3>2. CASE b # Unreadable
      <4>1. Version(b) = Said(b, "version") /\ Company(b) = Said(b, "company")
        BY <3>2, DesktopAssumption DEF Version, Company
      <4>2. TrueText(b, "version", Said(b, "version")) /\ TrueText(b, "company", Said(b, "company"))
        BY <2>2, <3>2
      <4>3. QED
        BY <4>1, <4>2
    <3>3. QED
      BY <3>1, <3>2
  <2> HIDE DEF b
  <2>4. b \in seen'[d]
    BY <1>1
  <2>5. QED
    BY <1>2, <2>1, <2>3, <2>4 DEF TrueTexts
<1>5. QED
  BY <1>1, <1>2, <1>3, <1>4 DEF Examined, Asked, Facts, Matched, Verified, Read, Hashed

LEMMA HashFileStep ==
  ASSUME TypeOK, IInv, NEW d \in Drivers, HashFile(d)
  PROVE  Examined(d)'
<1>1. /\ content[d] \in seen[d] /\ seen' = seen /\ unasked' = unasked
      /\ stage[d] = "read" /\ stage'[d] = "hashed"
  BY DEF TypeOK, IInv, HashFile, Examine
<1>2. /\ entry'[d].signature = entry[d].signature
      /\ entry'[d].version = entry[d].version /\ entry'[d].size = entry[d].size
      /\ entry'[d].company = entry[d].company
      /\ entry'[d].hash = content[d]
  BY DEF HashFile, TypeOK, Entry
<1>3. HonestSignature(d) /\ TrueTexts(d) /\ \E b \in seen[d] : entry[d].size = ImageSize(b)
  BY <1>1 DEF IInv, Examined, Facts, Verified, Read
<1>4. HonestSignature(d)' /\ TrueTexts(d)'
  BY <1>1, <1>2, <1>3 DEF HonestSignature, TrueTexts
<1>5. QED
  BY <1>1, <1>2, <1>3, <1>4 DEF Examined, Asked, Facts, Matched, Verified, Read, Hashed

LEMMA FinishStep ==
  ASSUME TypeOK, IInv, NEW d \in Drivers, Finish(d)
  PROVE  Examined(d)'
<1>1. /\ seen' = seen /\ unasked' = unasked
      /\ stage[d] = "hashed" /\ stage'[d] = "examined" /\ Lookup(entry[d].hash)
  BY DEF TypeOK, Finish, Examine
<1>2. PICK words : entry' = [entry EXCEPT
           ![d].category = Categorise(Words[d] \cup words),
           ![d].vulnerability = Match(d, entry[d].hash, cache'.hashes)]
  BY DEF Finish
<1>3. /\ entry'[d].signature = entry[d].signature
      /\ entry'[d].version = entry[d].version /\ entry'[d].size = entry[d].size
      /\ entry'[d].company = entry[d].company
      /\ entry'[d].hash = entry[d].hash
      /\ entry'[d].category = Categorise(Words[d] \cup words)
      /\ entry'[d].vulnerability = Match(d, entry[d].hash, cache'.hashes)
  BY <1>2 DEF TypeOK, Entry
<1>4. entry[d].hash # Unreadable => cache'.filled
  BY <1>1 DEF Lookup, FillCache, TypeOK, CorpusTypeOK
<1>5. Matched(d)'
  BY <1>3, <1>4, CategoriseIsFirst DEF Matched
<1>6. Facts(d)
  BY DEF IInv, Examined
<1>7. HonestSignature(d)' /\ TrueTexts(d)'
  <2>1. HonestSignature(d) /\ TrueTexts(d)
    BY <1>1, <1>6 DEF Facts, Verified, Read
  <2>2. QED
    BY <1>1, <1>3, <2>1 DEF HonestSignature, TrueTexts
<1>8. Facts(d)'
  BY <1>1, <1>3, <1>6, <1>7 DEF Facts, Verified, Read, Hashed
<1>9. Asked(d)'
  BY <1>1 DEF Asked
<1>10. QED
  BY <1>5, <1>8, <1>9 DEF Examined

-----------------------------------------------------------------------------
(* Every step.                                                             *)

(* The examination of a driver leaves the others alone.                    *)
LEMMA EnrichStep ==
  ASSUME TypeOK, TypeOK', IInv, NEW d \in Drivers, Enrich(d)
  PROVE  /\ CorpusInv'
         /\ \A e \in Drivers : Examined(e)'
         /\ UNCHANGED <<panel, content, seen>>
<1>1. Examined(d)'
  BY AskCatalogStep, AskFileStep, ReadHeaderStep, HashFileStep, FinishStep DEF Enrich
<1>2. /\ UNCHANGED <<panel, content, seen, corpusVars>>
      /\ \E to : stage' = [stage EXCEPT ![d] = to]
      /\ UNCHANGED cacheVars \/ Lookup(entry[d].hash)
  BY DEF Enrich, AskCatalog, AskFile, ReadHeader, HashFile, Finish, Examine
<1>3. cache.filled => cache' = cache
  BY <1>2 DEF Lookup, FillCache
<1>4. ASSUME NEW e \in Drivers, e # d PROVE Examined(e)'
  <2>1. stage'[e] = stage[e] /\ seen'[e] = seen[e]
    BY <1>2, <1>4 DEF TypeOK
  <2>2. entry'[e] = entry[e] /\ (e \in unasked' <=> e \in unasked)
    BY <1>4 DEF Enrich, AskCatalog, AskFile, ReadHeader, HashFile, Finish, TypeOK
  <2>3. QED
    BY <1>3, <2>1, <2>2, Kept DEF TypeOK, IInv
<1>5. CorpusInv'
  <2>1. entry[d].hash \in Contents
    BY DEF TypeOK, Entry
  <2>2. QED
    BY <1>2, <2>1, CorpusInvStep DEF TypeOK, IInv
<1>6. QED
  BY <1>1, <1>2, <1>4, <1>5

LEMMA IInvStep == TypeOK /\ IInv /\ [Next]_vars => IInv'
<1> SUFFICES ASSUME TypeOK, IInv, [Next]_vars PROVE IInv'
  OBVIOUS
<1>0. TypeOK' /\ CorpusTypeOK /\ CorpusTypeOK'
  BY TypeStep DEF TypeOK
<1>1. CASE Launch \/ Draw
  <2>1. CorpusInv'
    BY <1>0, <1>1, CorpusInvStep DEF Launch, Draw, IInv
  <2>2. \A d \in Drivers : Examined(d)'
    BY <1>0, <1>1, Kept DEF Launch, Draw, IInv
  <2>3. QED
    BY <1>1, <2>1, <2>2 DEF Launch, Draw, IInv
<1>2. CASE Close \/ StartScan
  <2>1. CorpusInv'
    BY <1>0, <1>2, CorpusInvStep DEF Close, StartScan, IInv
  <2>2. \A d \in Drivers : Examined(d)'
    BY <1>2, Fresh DEF Close, StartScan
  <2>3. panel' # "done" /\ (panel' = "running" => \A d \in Drivers : content'[d] \in seen'[d])
    BY <1>2 DEF Close, StartScan
  <2>4. QED
    BY <2>1, <2>2, <2>3 DEF IInv
<1>3. ASSUME NEW d \in Drivers, Enrich(d) PROVE IInv'
  <2>1. panel = "running"
    BY <1>3 DEF Enrich, AskCatalog, AskFile, ReadHeader, HashFile, Finish, Examine
  <2>2. QED
    BY <1>0, <1>3, <2>1, EnrichStep DEF IInv
<1>4. CASE ScanPanics \/ ScanEnds \/ RequestRepaint
  <2>1. CorpusInv'
    BY <1>0, <1>4, CorpusInvStep DEF ScanPanics, ScanEnds, RequestRepaint, IInv
  <2>2. \A d \in Drivers : Examined(d)'
    BY <1>0, <1>4, Kept DEF ScanPanics, ScanEnds, RequestRepaint, IInv
  <2>3. QED
    BY <1>4, <2>1, <2>2 DEF ScanPanics, ScanEnds, RequestRepaint, IInv
<1>5. ASSUME NEW d \in Drivers, ReplaceFile(d) PROVE IInv'
  <2>1. PICK b \in Contents \ {content[d]} :
          /\ content' = [content EXCEPT ![d] = b]
          /\ seen' = [seen EXCEPT ![d] = IF panel = "running" THEN @ \cup {b} ELSE @]
    BY <1>5 DEF ReplaceFile
  <2>2. UNCHANGED <<panel, stage, entry, unasked, corpusVars, cacheVars>>
    BY <1>5 DEF ReplaceFile
  <2>3. CorpusInv'
    BY <1>0, <2>2, CorpusInvStep DEF IInv
  <2>4. \A e \in Drivers : e # d => seen'[e] = seen[e] /\ content'[e] = content[e]
    BY <2>1 DEF TypeOK
  <2>5. /\ panel = "running" => seen'[d] = seen[d] \cup {b} /\ content'[d] = b
        /\ panel # "running" => seen'[d] = seen[d]
    BY <2>1 DEF TypeOK
  <2>6. \A e \in Drivers : e # d \/ panel # "running" => Examined(e)'
    BY <1>0, <2>2, <2>4, <2>5, Kept DEF IInv
  <2>7. panel = "running" => Examined(d)'
    BY <2>1, <2>2, <2>5, Grown DEF IInv
  <2>8. QED
    BY <2>2, <2>3, <2>4, <2>5, <2>6, <2>7 DEF IInv
<1>6. CASE UpdateBlocklist
  <2>1. CorpusInv'
    BY <1>0, <1>6, CorpusInvStep DEF UpdateBlocklist, IInv
  <2>2. UNCHANGED <<cacheVars, panel, stage, entry, seen, content, unasked>>
    BY <1>6 DEF UpdateBlocklist, Update, Fetch, Truncate, Fill, UpdateCut
  <2>3. \A d \in Drivers : Examined(d)'
    BY <1>0, <2>2, Kept DEF IInv
  <2>4. QED
    BY <2>1, <2>2, <2>3 DEF IInv
<1>7. CASE UNCHANGED vars
  <2>1. CorpusInv'
    BY <1>0, <1>7, CorpusInvStep DEF vars, IInv
  <2>2. \A d \in Drivers : Examined(d)'
    BY <1>0, <1>7, Kept DEF vars, IInv
  <2>3. QED
    BY <1>7, <2>1, <2>2 DEF vars, IInv
<1>8. QED
  BY <1>1, <1>2, <1>3, <1>4, <1>5, <1>6, <1>7 DEF Next, Window, ScanThread, Around

LEMMA Invariant == Spec => [](TypeOK /\ IInv)
<1>1. Init => TypeOK /\ IInv
  BY TypeInit, IInvInit
<1>2. TypeOK /\ IInv /\ [Next]_vars => (TypeOK /\ IInv)'
  BY TypeStep, IInvStep
<1>3. QED
  BY <1>1, <1>2, PTL DEF Spec

-----------------------------------------------------------------------------
(* What the report says.                                                   *)

(* A signature in a report is that of a build the path held during the     *)
(* scan, and a vouched driver whose file stayed and whose catalogs could   *)
(* be asked is signed: signature.rs looks in the catalogs first.           *)
THEOREM SignaturesAreHonest == Spec => []SignatureIsHonest
<1>1. TypeOK /\ IInv => SignatureIsHonest
  BY DEF IInv, Examined, Facts, Verified, SignatureIsHonest
<1>2. QED
  BY <1>1, Invariant, PTL

(* Version, company, size, hash and category of a report are true of a     *)
(* build the path held during the scan, whichever blocks its version       *)
(* resource declares (driver_inventory.rs).                                *)
THEOREM FactsAreTrue == Spec => []FactsAreOfTheFile
<1>1. TypeOK /\ IInv => FactsAreOfTheFile
  BY DEF IInv, Examined, Facts, Matched, Verified, Read, Hashed, FactsAreOfTheFile
<1>2. QED
  BY <1>1, Invariant, PTL

(* Two drivers of a report with the same hash get the same answer on it,   *)
(* whatever updates end between their lookups (the OnceLock of             *)
(* loldrivers.rs).                                                         *)
THEOREM OneAnswerPerHash == Spec => []OneCorpus
<1>1. TypeOK /\ IInv => OneCorpus
  <2> SUFFICES ASSUME TypeOK, IInv, NEW d \in Drivers, NEW e \in Drivers,
                      stage[d] = "examined", stage[e] = "examined",
                      entry[d].hash = entry[e].hash
               PROVE  entry[d].vulnerability = "SHA-256" <=> entry[e].vulnerability = "SHA-256"
    BY DEF OneCorpus
  <2>1. /\ entry[d].vulnerability = Match(d, entry[d].hash, cache.hashes)
        /\ entry[e].vulnerability = Match(e, entry[d].hash, cache.hashes)
    BY DEF IInv, Examined, Matched
  <2>2. QED
    BY <2>1 DEF Match
<1>2. QED
  BY <1>1, Invariant, PTL

(* A build that the corpus listed when the process took its copy is        *)
(* reported as that build, and listed unless Windows signed it: an exact   *)
(* hash outranks a name, and only a torn file loses a corpus.  Nothing     *)
(* else is reported as an exact build.                                     *)
THEOREM KnownBuildsAreFlagged == Spec => []FlaggedAsPromised
<1>1. TypeOK /\ IInv => FlaggedAsPromised
  <2> SUFFICES ASSUME TypeOK, IInv, panel = "done" PROVE FlaggedAsPromised
    BY DEF FlaggedAsPromised
  <2>1. \A d \in Drivers : stage[d] = "examined" /\ Facts(d) /\ Matched(d)
    BY DEF IInv, Examined
  <2>2. ASSUME ~known.torn, NEW d \in Drivers, NEW b \in Builds, seen[d] = {b}, b \in known.told
        PROVE  entry[d].vulnerability = "SHA-256" /\ (d \in Listed \/ File[b].signer \in OsSigners)
    <3>1. entry[d].hash = b /\ b # Unreadable
      BY <2>1, <2>2, CorpusAssumption DEF Facts, Hashed
    <3>2. cache.filled /\ cache.hashes = known.told
      BY <2>1, <2>2, <3>1 DEF Matched, IInv, CorpusInv
    <3>3. entry[d].vulnerability = "SHA-256"
      BY <2>1, <2>2, <3>1, <3>2 DEF Matched, Match
    <3>4. IsSigned(entry[d].signature) => entry[d].signature.signer = File[b].signer
      BY <2>1, <2>2 DEF Facts, Verified, HonestSignature
    <3>5. QED
      BY <3>3, <3>4 DEF Listed, IsMicrosoft
  <2>3. ASSUME NEW d \in Drivers, entry[d].vulnerability = "SHA-256"
        PROVE  entry[d].hash \in known.told
    <3>1. entry[d].hash \in cache.hashes
      BY <2>1, <2>3 DEF Matched, Match
    <3>2. QED
      BY <3>1 DEF IInv, CorpusInv
  <2>4. QED
    BY <2>2, <2>3 DEF FlaggedAsPromised
<1>2. QED
  BY <1>1, Invariant, PTL
=============================================================================
