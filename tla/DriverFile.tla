----------------------------- MODULE DriverFile -----------------------------
(***************************************************************************)
(* What enrich_one reads from one driver file: the signature (signature.rs *)
(* in two steps, because the catalog is asked about the open handle and    *)
(* the embedded signature is looked for by path), the version resource,    *)
(* the image size and the category.                                        *)
(*                                                                         *)
(* File[b] is what WinVerifyTrust, the catalogs and the version API say of *)
(* build b: they are external.                                             *)
(***************************************************************************)
EXTENDS SequencesExt

CONSTANTS
  Contents,  \* builds a path may hold, and Unreadable
  Missing,   \* the element of Contents that is no readable file
  Signers,   \* display names of signing certificates
  OsSigners, \* the four names Windows itself signs with
  Blocks,    \* language and codepage pairs of version resources
  Fallback,  \* the two pairs tried when a file declares none that serve
  Texts,     \* what a version resource says; "" is nothing
  File,      \* what Windows says of a build
  Purposes,  \* categories of drivers, without "other"
  Categories \* the same in the order they are tried

ASSUME FileAssumption ==
  /\ Missing \in Contents
  /\ OsSigners \subseteq Signers
  /\ Fallback \in Seq(Blocks)
  /\ Categories \in Seq(Purposes)
  /\ Len(Categories) > 0 /\ Categories[1] = "graphics"
  /\ File \in [Contents \ {Missing} ->
       [catalog : {"none", "valid", "invalid"}, embedded : {"none", "valid", "invalid"},
        signer : Signers, declared : Seq(Blocks),
        version : [Blocks -> Texts], company : [Blocks -> Texts], size : Nat]]

-----------------------------------------------------------------------------
(* SignatureVerifier.                                                      *)

Signed(kind, b) == [kind |-> kind, signer |-> File[b].signer]

Unsigned == [kind |-> "unsigned", signer |-> "none"]

Unknown == [kind |-> "unknown", signer |-> "none"]

(* Variant: catalogs are not consulted.                                    *)
CatalogVouches_Never(b, consulted) == FALSE

(* verify_handle() and verify_catalog(): a context must have been acquired *)
(* and a catalog with a valid signature must list the hash of the file.    *)
CatalogVouches(b, consulted) == consulted /\ File[b].catalog = "valid"

(* verify_embedded(): only TRUST_E_NOSIGNATURE means unsigned.             *)
Embedded(b) ==
  IF b = Missing THEN Unknown
  ELSE IF File[b].embedded = "valid" THEN Signed("embedded", b)
  ELSE IF File[b].embedded = "none" THEN Unsigned
  ELSE Unknown

IsSigned(signature) == signature.kind \in {"catalog", "embedded"}

(* The hardware compatibility publisher attests other people's drivers and *)
(* is none of OsSigners.                                                   *)
IsMicrosoft(signature) == IsSigned(signature) /\ signature.signer \in OsSigners

-----------------------------------------------------------------------------
(* version_info(), image_size() and categorise().                          *)

(* Variant: only the US English blocks are tried.                          *)
Tried_Fixed(b) == Fallback

(* The blocks the file declares, then the fallback.                        *)
Tried(b) == File[b].declared \o Fallback

(* What the first block that has the string says.                          *)
Said(b, string) ==
  LET first == SelectInSeq(Tried(b), LAMBDA k : File[b][string][k] # "")
  IN  IF first = 0 THEN "" ELSE File[b][string][Tried(b)[first]]

Version(b) == IF b = Missing THEN "" ELSE Said(b, "version")

Company(b) == IF b = Missing THEN "" ELSE Said(b, "company")

(* SizeOfImage, or 0 for a file that is no image or cannot be read.        *)
ImageSize(b) == IF b = Missing THEN 0 ELSE File[b].size

(* The first category of the list one of whose keywords occurs.            *)
Categorise(words) ==
  LET first == SelectInSeq(Categories, LAMBDA c : c \in words)
  IN  IF first = 0 THEN "other" ELSE Categories[first]
=============================================================================
